---- MODULE Spec2Model ----
(***************************************************************************)
(* A model of the core of ttf-parser: the AAT lookup / extended state      *)
(* table engine (src/src/aat.rs), face construction, tags and the queries  *)
(* on a constructed face (src/src/lib.rs).                                 *)
(*                                                                         *)
(* Buffers are sequences of bytes (0..255); every parser below works on    *)
(* the bytes, big-endian, as the code does.  Rust's Option is the record   *)
(* None / Some(v); Result is Ok(v) / Err(e).                               *)
(***************************************************************************)
EXTENDS Integers, Sequences, FiniteSets, TLC

VARIABLES
    subtable,   \* AAT: the bytes handed to Lookup::parse or ExtendedStateTable::parse
    aat,        \* AAT: what the parse returned (a Lookup or an ExtendedStateTable)
    query,      \* AAT: the last query made on the parsed table and its result
    provider,   \* tables: the items the table provider will yield, and its position
    assembly,   \* tables: the locals and the face of from_table_provider
    outcome,    \* tables: the value from_table_provider returned
    font,       \* face: the buffer and index handed to Face::from_slice
    face,       \* face: the value Face::from_slice returned
    face_tables,  \* queries: the FaceTables the queries are made on
    call        \* queries: the last call made (a query or a Tag function) and its result

vars == <<subtable, aat, query, provider, assembly, outcome, font, face, face_tables, call>>

aatVars == <<subtable, aat, query>>
tableVars == <<provider, assembly, outcome>>
faceVars == <<font, face>>
queryVars == <<face_tables, call>>

----------------------------------------------------------------------------
(* Option and Result *)

None == [some |-> FALSE]
Some(v) == [some |-> TRUE, v |-> v]

Ok(v) == [ok |-> TRUE, v |-> v]
Err(e) == [ok |-> FALSE, e |-> e]

\* Option::and_then
AndThen(o, F(_)) == IF o.some THEN F(o.v) ELSE None

----------------------------------------------------------------------------
(* The byte reader (crate::parser, component A of the specification) *)

\* slice.get(from..to)
GetRange(data, from, to) ==
    IF from <= to /\ to <= Len(data) THEN Some(SubSeq(data, from + 1, to)) ELSE None

\* slice.get(from..)
GetFrom(data, from) ==
    IF from <= Len(data) THEN Some(SubSeq(data, from + 1, Len(data))) ELSE None

\* Stream::read_at::<u8>
ReadU8At(data, offset) ==
    IF offset + 1 <= Len(data) THEN Some(data[offset + 1]) ELSE None

\* Stream::read_at::<u16>: big-endian
ReadU16At(data, offset) ==
    IF offset + 2 <= Len(data)
    THEN Some(data[offset + 1] * 256 + data[offset + 2])
    ELSE None

\* Stream::read_at::<u32>: big-endian
ReadU32At(data, offset) ==
    IF offset + 4 <= Len(data)
    THEN Some(((data[offset + 1] * 256 + data[offset + 2]) * 256
                    + data[offset + 3]) * 256 + data[offset + 4])
    ELSE None

\* Stream::read_array16::<T>(count) at `offset`: a lazy array over count * size bytes
ReadArray16(data, offset, size, count) ==
    IF offset + count * size <= Len(data)
    THEN Some([data |-> SubSeq(data, offset + 1, offset + count * size),
               size |-> size, count |-> count])
    ELSE None

\* LazyArray16::get(i): the bytes of element i, none if i >= count
ArrayGet(arr, i) ==
    IF i < arr.count
    THEN Some(SubSeq(arr.data, i * arr.size + 1, i * arr.size + arr.size))
    ELSE None

----------------------------------------------------------------------------
(* src/src/aat.rs *)

END_OF_TEXT == 0
OUT_OF_BOUNDS == 1
DELETED_GLYPH == 2

NoGlyph == 65535            \* 0xFFFF
U16Size == 2
U16Modulus == 65536

\* LookupSegment::SIZE and LookupSingle::SIZE
LookupSegmentSize == 6
LookupSingleSize == 4

\* LookupSegment::parse: last_glyph, first_glyph, value
LookupSegmentParse(b) ==
    [last_glyph |-> b[1] * 256 + b[2],
     first_glyph |-> b[3] * 256 + b[4],
     value |-> b[5] * 256 + b[6]]

\* LookupSingle::parse: glyph, value
LookupSingleParse(b) ==
    [glyph |-> b[1] * 256 + b[2], value |-> b[3] * 256 + b[4]]

\* T::SIZE and T::parse of the two BinarySearchValue types
ValueSize(kind) == IF kind = "segment" THEN LookupSegmentSize ELSE LookupSingleSize
ValueParse(kind, b) ==
    IF kind = "segment" THEN LookupSegmentParse(b) ELSE LookupSingleParse(b)

SegmentIsTermination(v) == v.last_glyph = NoGlyph /\ v.first_glyph = NoGlyph
SingleIsTermination(v) == v.glyph = NoGlyph
IsTermination(kind, v) ==
    IF kind = "segment" THEN SegmentIsTermination(v) ELSE SingleIsTermination(v)

\* A faulty variant of contains: the last glyph of a segment is outside it
SegmentContainsExclusive(v, id) ==
    IF id < v.first_glyph THEN "Less"
    ELSE IF id < v.last_glyph THEN "Equal"
    ELSE "Greater"

\* LookupSegment::contains
SegmentContains(v, id) ==
    IF id < v.first_glyph THEN "Less"
    ELSE IF id <= v.last_glyph THEN "Equal"
    ELSE "Greater"

\* LookupSingle::contains: id.cmp(&self.glyph)
SingleContains(v, id) ==
    IF id < v.glyph THEN "Less"
    ELSE IF id = v.glyph THEN "Equal"
    ELSE "Greater"

Contains(kind, v, id) ==
    IF kind = "segment" THEN SegmentContains(v, id) ELSE SingleContains(v, id)

\* A faulty variant of the searchable length: the termination value is kept
SearchableLenWithTermination(kind, last, number_of_segments) == number_of_segments

\* The searchable length BinarySearchTable::parse computes: a termination
\* value in last position is left out
SearchableLen(kind, last, number_of_segments) ==
    IF IsTermination(kind, last) THEN number_of_segments - 1 ELSE number_of_segments

\* A faulty variant of parse: the declared stride is not compared with T::SIZE
BinarySearchTableParseAnyStride(kind, data) ==
    LET segment_size == ReadU16At(data, 0)
        number_of_segments == ReadU16At(data, 2)
    IN  IF ~segment_size.some \/ ~number_of_segments.some THEN None
        ELSE IF number_of_segments.v = 0 THEN None
        ELSE
          LET values == ReadArray16(data, 10, ValueSize(kind), number_of_segments.v)
          IN  IF ~values.some THEN None
              ELSE
                LET last == ValueParse(kind,
                                ArrayGet(values.v, number_of_segments.v - 1).v)
                    len == SearchableLen(kind, last, number_of_segments.v)
                IN  IF len = 0 THEN None
                    ELSE Some([kind |-> kind, values |-> values.v, len |-> len])

\* BinarySearchTable::<T>::parse
BinarySearchTableParse(kind, data) ==
    LET segment_size == ReadU16At(data, 0)
        number_of_segments == ReadU16At(data, 2)
    IN  IF ~segment_size.some \/ ~number_of_segments.some THEN None
        ELSE IF segment_size.v # ValueSize(kind) THEN None
        ELSE IF number_of_segments.v = 0 THEN None
        ELSE
          \* s.advance(6) is unchecked: the array is read at offset 10
          LET values == ReadArray16(data, 10, ValueSize(kind), number_of_segments.v)
          IN  IF ~values.some THEN None
              ELSE
                LET last == ValueParse(kind,
                                ArrayGet(values.v, number_of_segments.v - 1).v)
                    len == SearchableLen(kind, last, number_of_segments.v)
                IN  IF len = 0 THEN None
                    ELSE Some([kind |-> kind, values |-> values.v, len |-> len])

\* A faulty variant of the loop body: after Less the probed entry stays in
\* the interval
BinarySearchIterateKeepsMid(tbl, key, min, max) ==
    IF min > max THEN [done |-> TRUE, result |-> None, min |-> min, max |-> max, probe |-> None]
    ELSE
      LET mid == (min + max) \div 2
          raw == ArrayGet(tbl.values, mid % U16Modulus)
          at == [min |-> min, max |-> max, mid |-> mid, index |-> mid % U16Modulus,
                 read |-> raw.some]
      IN  IF ~raw.some
          THEN [done |-> TRUE, result |-> None, min |-> min, max |-> max, probe |-> Some(at)]
          ELSE
            LET v == ValueParse(tbl.kind, raw.v)
                ord == Contains(tbl.kind, v, key)
            IN  IF ord = "Less"
                THEN [done |-> FALSE, result |-> None, min |-> min, max |-> mid,
                      probe |-> Some(at)]
                ELSE IF ord = "Greater"
                THEN [done |-> FALSE, result |-> None, min |-> mid + 1, max |-> max,
                      probe |-> Some(at)]
                ELSE [done |-> TRUE, result |-> Some(v), min |-> min, max |-> max,
                      probe |-> Some(at)]

\* One pass of the loop of BinarySearchTable::get over [min, max]: the loop
\* test, the probe of the middle entry (its index as isize and as u16, and
\* whether the array had it), and the new bounds or the value returned
BinarySearchIterate(tbl, key, min, max) ==
    IF min > max THEN [done |-> TRUE, result |-> None, min |-> min, max |-> max, probe |-> None]
    ELSE
      LET mid == (min + max) \div 2
          raw == ArrayGet(tbl.values, mid % U16Modulus)
          at == [min |-> min, max |-> max, mid |-> mid, index |-> mid % U16Modulus,
                 read |-> raw.some]
      IN  IF ~raw.some
          THEN [done |-> TRUE, result |-> None, min |-> min, max |-> max, probe |-> Some(at)]
          ELSE
            LET v == ValueParse(tbl.kind, raw.v)
                ord == Contains(tbl.kind, v, key)
            IN  IF ord = "Less"
                THEN [done |-> FALSE, result |-> None, min |-> min, max |-> mid - 1,
                      probe |-> Some(at)]
                ELSE IF ord = "Greater"
                THEN [done |-> FALSE, result |-> None, min |-> mid + 1, max |-> max,
                      probe |-> Some(at)]
                ELSE [done |-> TRUE, result |-> Some(v), min |-> min, max |-> max,
                      probe |-> Some(at)]

\* The loop of BinarySearchTable::get, from the bounds [min, max]
RECURSIVE BinarySearchLoop(_, _, _, _)
BinarySearchLoop(tbl, key, min, max) ==
    LET r == BinarySearchIterate(tbl, key, min, max)
    IN  IF r.done THEN r.result ELSE BinarySearchLoop(tbl, key, r.min, r.max)

\* BinarySearchTable::get
BinarySearchTableGet(tbl, key) == BinarySearchLoop(tbl, key, 0, tbl.len - 1)

\* A variant of the format 10 arm that refuses every value_size but 1, 2 and 4
Format10ParseStrict(data) ==
    LET value_size == ReadU16At(data, 2)
        first_glyph == ReadU16At(data, 4)
        glyph_count == ReadU16At(data, 6)
    IN  IF ~value_size.some \/ ~first_glyph.some \/ ~glyph_count.some THEN None
        ELSE IF value_size.v \notin {1, 2, 4} THEN None
        ELSE Some([format |-> "Format10", value_size |-> value_size.v,
                   first_glyph |-> first_glyph.v, glyph_count |-> glyph_count.v,
                   data |-> GetFrom(data, 8).v])

\* The arm of LookupInner::parse for format 10
Format10Parse(data) ==
    LET value_size == ReadU16At(data, 2)
        first_glyph == ReadU16At(data, 4)
        glyph_count == ReadU16At(data, 6)
    IN  IF ~value_size.some \/ ~first_glyph.some \/ ~glyph_count.some THEN None
        ELSE Some([format |-> "Format10", value_size |-> value_size.v,
                   first_glyph |-> first_glyph.v, glyph_count |-> glyph_count.v,
                   data |-> GetFrom(data, 8).v])

\* LookupInner::parse
LookupParse(number_of_glyphs, data) ==
    LET format == ReadU16At(data, 0)
    IN  IF ~format.some THEN None
        ELSE IF format.v = 0 THEN
          LET values == ReadArray16(data, 2, U16Size, number_of_glyphs)
          IN  IF ~values.some THEN None
              ELSE Some([format |-> "Format1", values |-> values.v])
        ELSE IF format.v = 2 THEN
          LET bsearch == AndThen(GetFrom(data, 2),
                                 LAMBDA t : BinarySearchTableParse("segment", t))
          IN  IF ~bsearch.some THEN None
              ELSE Some([format |-> "Format2", bsearch |-> bsearch.v])
        ELSE IF format.v = 4 THEN
          LET bsearch == AndThen(GetFrom(data, 2),
                                 LAMBDA t : BinarySearchTableParse("segment", t))
          IN  IF ~bsearch.some THEN None
              ELSE Some([format |-> "Format4", bsearch |-> bsearch.v, data |-> data])
        ELSE IF format.v = 6 THEN
          LET bsearch == AndThen(GetFrom(data, 2),
                                 LAMBDA t : BinarySearchTableParse("single", t))
          IN  IF ~bsearch.some THEN None
              ELSE Some([format |-> "Format6", bsearch |-> bsearch.v])
        ELSE IF format.v = 8 THEN
          LET first_glyph == ReadU16At(data, 2)
              glyph_count == ReadU16At(data, 4)
          IN  IF ~first_glyph.some \/ ~glyph_count.some THEN None
              ELSE
                LET values == ReadArray16(data, 6, U16Size, glyph_count.v)
                IN  IF ~values.some THEN None
                    ELSE Some([format |-> "Format8",
                               first_glyph |-> first_glyph.v, values |-> values.v])
        ELSE IF format.v = 10 THEN Format10Parse(data)
        ELSE None

\* u16::checked_sub
CheckedSubU16(a, b) == IF a >= b THEN Some(a - b) ELSE None

\* `n as u16` of a u32
U32AsU16(n) == n % U16Modulus

\* The Format10 arm of LookupInner::value
Format10Value(lk, glyph_id) ==
    LET idx == CheckedSubU16(glyph_id, lk.first_glyph)
    IN  IF ~idx.some THEN None
        ELSE IF lk.value_size = 1 THEN
          LET arr == ReadArray16(lk.data, 0, 1, lk.glyph_count)
          IN  IF ~arr.some THEN None
              ELSE AndThen(ArrayGet(arr.v, idx.v), LAMBDA b : ReadU8At(b, 0))
        ELSE IF lk.value_size = 2 THEN
          LET arr == ReadArray16(lk.data, 0, 2, lk.glyph_count)
          IN  IF ~arr.some THEN None
              ELSE AndThen(ArrayGet(arr.v, idx.v), LAMBDA b : ReadU16At(b, 0))
        ELSE IF lk.value_size = 4 THEN
          LET arr == ReadArray16(lk.data, 0, 4, lk.glyph_count)
          IN  IF ~arr.some THEN None
              ELSE AndThen(ArrayGet(arr.v, idx.v),
                           LAMBDA b : Some(U32AsU16(ReadU32At(b, 0).v)))
        ELSE None

\* A faulty variant of the Format4 arm: the offset of the values is measured
\* from the byte after the format code
Format4ValueAfterFormat(lk, glyph_id) ==
    LET segment == BinarySearchTableGet(lk.bsearch, glyph_id)
    IN  IF ~segment.some THEN None
        ELSE
          LET index == CheckedSubU16(glyph_id, segment.v.first_glyph)
          IN  IF ~index.some THEN None
              ELSE ReadU16At(lk.data, U16Size + segment.v.value + U16Size * index.v)

\* The Format4 arm of LookupInner::value: the segment's value is the offset,
\* in the data Lookup::parse was given, of one u16 per glyph of the segment
Format4Value(lk, glyph_id) ==
    LET segment == BinarySearchTableGet(lk.bsearch, glyph_id)
    IN  IF ~segment.some THEN None
        ELSE
          LET index == CheckedSubU16(glyph_id, segment.v.first_glyph)
          IN  IF ~index.some THEN None
              ELSE ReadU16At(lk.data, segment.v.value + U16Size * index.v)

\* LookupInner::value (Lookup::value delegates to it)
LookupValue(lk, glyph_id) ==
    IF lk.format = "Format1" THEN
      AndThen(ArrayGet(lk.values, glyph_id), LAMBDA b : ReadU16At(b, 0))
    ELSE IF lk.format = "Format2" THEN
      AndThen(BinarySearchTableGet(lk.bsearch, glyph_id), LAMBDA v : Some(v.value))
    ELSE IF lk.format = "Format4" THEN Format4Value(lk, glyph_id)
    ELSE IF lk.format = "Format6" THEN
      AndThen(BinarySearchTableGet(lk.bsearch, glyph_id), LAMBDA v : Some(v.value))
    ELSE IF lk.format = "Format8" THEN
      LET idx == CheckedSubU16(glyph_id, lk.first_glyph)
      IN  IF ~idx.some THEN None
          ELSE AndThen(ArrayGet(lk.values, idx.v), LAMBDA b : ReadU16At(b, 0))
    ELSE Format10Value(lk, glyph_id)

\* ExtendedStateEntry::<T>::SIZE, T::SIZE being extra_size
EntrySize(extra_size) == 4 + extra_size

\* ExtendedStateEntry::<T>::parse, through Stream::read_at
EntryReadAt(data, offset, extra_size) ==
    LET b == GetRange(data, offset, offset + EntrySize(extra_size))
    IN  IF ~b.some THEN None
        ELSE Some([new_state |-> b.v[1] * 256 + b.v[2],
                   flags |-> b.v[3] * 256 + b.v[4],
                   extra |-> SubSeq(b.v, 5, EntrySize(extra_size))])

\* A faulty variant of parse: the three offsets are measured from the first
\* byte of the stream's data, not from the stream's position
ExtendedStateTableParseFromData(number_of_glyphs, data, offset, extra_size) ==
    LET number_of_classes == ReadU32At(data, offset)
        lookup_table_offset == ReadU32At(data, offset + 4)
        state_array_offset == ReadU32At(data, offset + 8)
        entry_table_offset == ReadU32At(data, offset + 12)
    IN  IF ~entry_table_offset.some THEN [table |-> None, offset |-> offset]
        ELSE
          LET lookup == AndThen(GetFrom(data, lookup_table_offset.v),
                                LAMBDA d : LookupParse(number_of_glyphs, d))
              state_array == GetFrom(data, state_array_offset.v)
              entry_table == GetFrom(data, entry_table_offset.v)
          IN  [table |->
                  IF ~lookup.some \/ ~state_array.some \/ ~entry_table.some
                  THEN None
                  ELSE Some([number_of_classes |-> number_of_classes.v,
                             lookup |-> lookup.v,
                             state_array |-> state_array.v,
                             entry_table |-> entry_table.v,
                             extra_size |-> extra_size]),
               offset |-> offset + 16]

\* ExtendedStateTable::parse, on a stream over `data` positioned at `offset`.
\* The result carries the stream's position after the call.
ExtendedStateTableParse(number_of_glyphs, data, offset, extra_size) ==
    LET tail == GetFrom(data, offset)
    IN  IF ~tail.some THEN [table |-> None, offset |-> offset]
        ELSE
          LET number_of_classes == ReadU32At(data, offset)
              lookup_table_offset == ReadU32At(data, offset + 4)
              state_array_offset == ReadU32At(data, offset + 8)
              entry_table_offset == ReadU32At(data, offset + 12)
          IN  IF ~number_of_classes.some THEN [table |-> None, offset |-> offset]
              ELSE IF ~lookup_table_offset.some THEN [table |-> None, offset |-> offset + 4]
              ELSE IF ~state_array_offset.some THEN [table |-> None, offset |-> offset + 8]
              ELSE IF ~entry_table_offset.some THEN [table |-> None, offset |-> offset + 12]
              ELSE
                LET lookup == AndThen(GetFrom(tail.v, lookup_table_offset.v),
                                      LAMBDA d : LookupParse(number_of_glyphs, d))
                    state_array == GetFrom(tail.v, state_array_offset.v)
                    entry_table == GetFrom(tail.v, entry_table_offset.v)
                IN  [table |->
                        IF ~lookup.some \/ ~state_array.some \/ ~entry_table.some
                        THEN None
                        ELSE Some([number_of_classes |-> number_of_classes.v,
                                   lookup |-> lookup.v,
                                   state_array |-> state_array.v,
                                   entry_table |-> entry_table.v,
                                   extra_size |-> extra_size]),
                     offset |-> offset + 16]

\* A faulty variant of class: the deleted glyph is looked up like any other
ClassWithoutDeletedGlyph(t, glyph_id) == LookupValue(t.lookup, glyph_id)

\* ExtendedStateTable::class
Class(t, glyph_id) ==
    IF glyph_id = NoGlyph THEN Some(DELETED_GLYPH)
    ELSE LookupValue(t.lookup, glyph_id)

\* A faulty variant of the coercion: the class equal to number_of_classes passes
CoerceClassAbove(t, class) ==
    IF class > t.number_of_classes THEN OUT_OF_BOUNDS ELSE class

\* The coercion at the head of ExtendedStateTable::entry
CoerceClass(t, class) ==
    IF class >= t.number_of_classes THEN OUT_OF_BOUNDS ELSE class

\* The product of a u16 and a u32 as a whole number, kept as its low 16 bits
\* and everything above them (the u32 is below 2^30 in the tables here)
MulU16U32(a, b) ==
    LET bh == b \div U16Modulus
        bl == b % U16Modulus
        t == a * (bl % 256)
        u == a * (bl \div 256)
        low == t + (u % 256) * 256
    IN  [hi |-> a * bh + u \div 256 + low \div U16Modulus, lo |-> low % U16Modulus]

\* x + n and x * n for a whole number x in halves and a small n
AddHalves(x, n) ==
    LET lo == x.lo + n
    IN  [hi |-> x.hi + lo \div U16Modulus, lo |-> lo % U16Modulus]

MulHalves(x, n) ==
    LET lo == x.lo * n
    IN  [hi |-> x.hi * n + lo \div U16Modulus, lo |-> lo % U16Modulus]

\* The width of usize on the target the AAT code is built for
EntryUsizeBits == subtable.usize_bits

\* state_idx * u16::SIZE in ExtendedStateTable::entry as a whole number:
\* (state * number_of_classes + class) * 2
StateOffset(t, state, class) ==
    MulHalves(AddHalves(MulU16U32(state, t.number_of_classes), CoerceClass(t, class)),
              U16Size)

\* The usize arithmetic of entry leaves a 32-bit usize: one of the
\* multiplications or the addition gives 2^32 or more
StateOffsetOverflows(t, state, class) ==
    EntryUsizeBits = 32 /\ StateOffset(t, state, class).hi >= U16Modulus

\* Stream::read_at::<u16>(state_array, offset), the offset in halves; a
\* state array is shorter than 2^16 bytes here
ReadStateArray(t, offset) ==
    IF offset.hi = 0 THEN ReadU16At(t.state_array, offset.lo) ELSE None

\* ExtendedStateTable::entry when the call returns: the offset into the state
\* array is the whole number on a 64-bit usize and its low 32 bits on a
\* 32-bit usize (wrapping arithmetic, overflow checks off)
Entry(t, state, class) ==
    LET exact == StateOffset(t, state, class)
        offset == IF EntryUsizeBits = 32 THEN [exact EXCEPT !.hi = @ % U16Modulus] ELSE exact
        entry_idx == ReadStateArray(t, offset)
    IN  IF ~entry_idx.some THEN None
        ELSE EntryReadAt(t.entry_table, entry_idx.v * EntrySize(t.extra_size),
                         t.extra_size)

\* The outcomes of a call of entry: when the arithmetic overflows the build
\* decides between a panic (overflow checks on) and the wrapped offset
EntryOutcomes(t, state, class) ==
    IF StateOffsetOverflows(t, state, class)
    THEN {[panic |-> TRUE], [panic |-> FALSE, result |-> Entry(t, state, class)]}
    ELSE {[panic |-> FALSE, result |-> Entry(t, state, class)]}

----------------------------------------------------------------------------
(* Inputs of the AAT engine: tables serialised to bytes *)

MaxSegments == 3        \* segments (or singles) of a binary-search lookup
MaxStateCells == 3      \* u16 cells of a state array
MaxEntries == 2         \* records of an entry table

U16Bytes(n) == <<n \div 256, n % 256>>
U32Bytes(n) == <<n \div 16777216, (n \div 65536) % 256, (n \div 256) % 256, n % 256>>

RECURSIVE Concat(_)
Concat(ss) == IF ss = <<>> THEN <<>> ELSE Head(ss) \o Concat(Tail(ss))

\* The sequences over S of length at most n
RECURSIVE SeqsUpTo(_, _)
SeqsUpTo(S, n) ==
    IF n = 0 THEN {<<>>}
    ELSE LET shorter == SeqsUpTo(S, n - 1)
         IN  shorter \cup {Append(q, x) : q \in shorter, x \in S}

\* Glyph ids stored in tables, and glyph ids asked for
GlyphKeys == {1, 2, 3, 4, NoGlyph}
QueryGlyphs == {0, 1, 2, 3, 4, 5, 65534, NoGlyph}

\* Glyph ranges <<first, last>>
Ranges == {r \in GlyphKeys \X GlyphKeys : r[1] <= r[2]}

RangeBefore(a, b) == a[1] < b[1] \/ (a[1] = b[1] /\ a[2] < b[2])

\* A set of ranges, and a set of glyphs, as a sequence, ascending
RECURSIVE AscendingRanges(_)
AscendingRanges(S) ==
    IF S = {} THEN <<>>
    ELSE LET m == CHOOSE x \in S : \A y \in S \ {x} : RangeBefore(x, y)
         IN  <<m>> \o AscendingRanges(S \ {m})

RECURSIVE AscendingGlyphs(_)
AscendingGlyphs(S) ==
    IF S = {} THEN <<>>
    ELSE LET m == CHOOSE x \in S : \A y \in S \ {x} : x < y
         IN  <<m>> \o AscendingGlyphs(S \ {m})

Reverse(q) == [i \in 1..Len(q) |-> q[Len(q) + 1 - i]]

\* The range (or glyph) lists of the lookups: ascending ones, and their reversals
RangeLists ==
    LET asc == {AscendingRanges(S) : S \in {T \in SUBSET Ranges : Cardinality(T) <= MaxSegments}}
    IN  asc \cup {Reverse(q) : q \in asc}

GlyphLists ==
    LET asc == {AscendingGlyphs(S) : S \in {T \in SUBSET GlyphKeys : Cardinality(T) <= MaxSegments + 1}}
    IN  asc \cup {Reverse(q) : q \in asc}

\* The value stored with the k-th segment or single (k from 1); an entry with
\* the shape of the termination value carries 0xFFFF
StoredValue(k, terminal) == IF terminal THEN NoGlyph ELSE 20 + 2 * k

\* A binary-search header: stride, count, and the three search hints
BinarySearchHeader(stride, count) ==
    U16Bytes(stride) \o U16Bytes(count) \o <<0, 0, 0, 0, 0, 0>>

SegmentBytes(ranges) ==
    Concat([k \in 1..Len(ranges) |->
              U16Bytes(ranges[k][2]) \o U16Bytes(ranges[k][1])
                \o U16Bytes(StoredValue(k, ranges[k] = <<NoGlyph, NoGlyph>>))])

SingleBytes(glyphs) ==
    Concat([k \in 1..Len(glyphs) |->
              U16Bytes(glyphs[k]) \o U16Bytes(StoredValue(k, glyphs[k] = NoGlyph))])

\* Format 2 and 4 lookups (the format code, the header, the segments)
SegmentLookup(format, stride, ranges) ==
    U16Bytes(format) \o BinarySearchHeader(stride, Len(ranges)) \o SegmentBytes(ranges)

\* Format 6 lookups
SingleLookup(stride, glyphs) ==
    U16Bytes(6) \o BinarySearchHeader(stride, Len(glyphs)) \o SingleBytes(glyphs)

\* u16 values 30, 31, ... as bytes
RECURSIVE ValueBytes(_, _)
ValueBytes(count, size) ==
    IF count = 0 THEN <<>>
    ELSE ValueBytes(count - 1, size)
            \o [i \in 1..size |-> IF i = size THEN 29 + count ELSE IF i = 1 THEN count ELSE 0]

\* Format 0 (one value per glyph of the face) and format 8 lookups
DenseLookups ==
    {U16Bytes(0) \o ValueBytes(n, 2) : n \in 0..3}
    \cup {U16Bytes(8) \o U16Bytes(first) \o U16Bytes(count) \o ValueBytes(have, 2) :
            first \in {0, 2}, count \in 0..2, have \in 0..2}

Format10ValueSizes == {0, 1, 2, 3, 4, 8}

Format10Lookups ==
    {U16Bytes(10) \o U16Bytes(vs) \o U16Bytes(first) \o U16Bytes(count)
        \o ValueBytes(have, IF vs = 0 THEN 1 ELSE vs) :
            vs \in Format10ValueSizes, first \in {0, 2}, count \in 0..2, have \in {0, 2}}

\* Lookups cut short, and format codes the parser does not know
BrokenLookups ==
    {<<>>, <<0>>, U16Bytes(1), U16Bytes(3), U16Bytes(12), U16Bytes(2), U16Bytes(6),
     U16Bytes(10) \o U16Bytes(8) \o U16Bytes(0),
     U16Bytes(2) \o BinarySearchHeader(6, 2) \o SegmentBytes(<<<<1, 2>>>>)}

LookupInputs ==
    {SegmentLookup(f, 6, r) : f \in {2, 4}, r \in RangeLists}
    \cup {SegmentLookup(2, 4, r) : r \in {<<<<1, 2>>>>}}
    \cup {SingleLookup(4, g) : g \in GlyphLists}
    \cup {SingleLookup(6, g) : g \in {<<1, 2>>}}
    \cup DenseLookups \cup Format10Lookups \cup BrokenLookups

\* The lookups the state tables are built around
ClassLookups ==
    {SegmentLookup(2, 6, r) : r \in {<<<<1, 2>>>>, <<<<1, 1>>, <<3, NoGlyph>>>>,
                                     <<<<2, 3>>, <<NoGlyph, NoGlyph>>>>}}
    \cup {SingleLookup(4, <<1, 3, NoGlyph>>), U16Bytes(0) \o ValueBytes(3, 2),
          U16Bytes(10) \o U16Bytes(2) \o U16Bytes(1) \o U16Bytes(2) \o ValueBytes(2, 2),
          U16Bytes(3)}

DefaultLookup == SegmentLookup(2, 6, <<<<1, 2>>>>)

\* State arrays: up to MaxStateCells entry indices, possibly with a stray byte
StateArrays ==
    LET cells == SeqsUpTo({0, 1}, MaxStateCells)
        whole == {Concat([k \in 1..Len(c) |-> U16Bytes(c[k])]) : c \in cells}
    IN  whole \cup {b \o <<0>> : b \in whole}

\* The k-th record of an entry table: new_state, flags, extra
EntryRecord(k, extra_size) ==
    U16Bytes(k) \o U16Bytes(16 + k) \o [i \in 1..extra_size |-> 40 + k]

EntryTables(extra_size) ==
    LET whole == {Concat([k \in 1..n |-> EntryRecord(k, extra_size)]) : n \in 0..MaxEntries}
    IN  whole \cup {SubSeq(b, 1, Len(b) - 1) : b \in whole \ {<<>>}}

ClassCounts == {0, 1, 2, 3}
ExtraSizes == {0, 2}
QueryStates == {0, 1, 2}
FarStates == {16384, 32768}     \* states asked of the tables of FarClassCount classes
FarClassCount == 2 * U16Modulus
QueryClasses == {0, 1, 2, 3, 4, 65535}

\* An extended state table: the 16-byte header, then the lookup, the state
\* array and the entry table, the offsets measured from the header's first byte
StateTableBytes(classes, lookup, states, entries) ==
    U32Bytes(classes) \o U32Bytes(16) \o U32Bytes(16 + Len(lookup))
        \o U32Bytes(16 + Len(lookup) + Len(states))
        \o lookup \o states \o entries

StateTableInputs ==
    {[kind |-> "state_table", number_of_glyphs |-> 3, extra_size |-> x, usize_bits |-> 64,
      start |-> 0, data |-> StateTableBytes(c, DefaultLookup, s, e)] :
        x \in ExtraSizes, c \in ClassCounts, s \in StateArrays, e \in EntryTables(2)}
    \cup
    {[kind |-> "state_table", number_of_glyphs |-> 3, extra_size |-> 0, usize_bits |-> 64,
      start |-> 0, data |-> StateTableBytes(2, l, U16Bytes(0), EntryRecord(1, 0))] : l \in ClassLookups}
    \cup
    \* tables that declare 2^17 classes, on a 32-bit and on a 64-bit target
    {[kind |-> "state_table", number_of_glyphs |-> 3, extra_size |-> 0, usize_bits |-> bits,
      start |-> 0, data |-> StateTableBytes(FarClassCount, DefaultLookup,
                               U16Bytes(0) \o U16Bytes(1) \o U16Bytes(0),
                               EntryRecord(1, 0) \o EntryRecord(2, 0))] : bits \in {32, 64}}

\* An extended state table with the offsets as given, after a prefix the
\* stream has already passed
StateTableAt(prefix, lookup_offset, state_offset, entry_offset, body) ==
    prefix \o U32Bytes(2) \o U32Bytes(lookup_offset) \o U32Bytes(state_offset)
        \o U32Bytes(entry_offset) \o body

\* The parts after the header of such a table: 18, 4 and 4 bytes
OffsetBody == DefaultLookup \o U16Bytes(0) \o U16Bytes(1) \o EntryRecord(1, 0)
OffsetPrefixes == {<<>>, <<0, 0, 0>>}

\* State tables whose offsets point at the header, at the parts, at the end
\* of the subtable and one byte past it, and state tables cut short in the header
OffsetStateTables ==
    LET end == 16 + Len(OffsetBody)
    IN  {[kind |-> "state_table", number_of_glyphs |-> 3, extra_size |-> 0, usize_bits |-> 64,
          start |-> Len(p), data |-> StateTableAt(p, l, s, e, OffsetBody)] :
            p \in OffsetPrefixes, l \in {0, 16, end + 1},
            s \in {16, 34, end, end + 1}, e \in {0, 38, end, end + 1}}
        \cup
        {[kind |-> "state_table", number_of_glyphs |-> 3, extra_size |-> 0, usize_bits |-> 64,
          start |-> Len(p),
          data |-> SubSeq(StateTableAt(p, 16, 34, 38, OffsetBody), 1, Len(p) + n)] :
            p \in OffsetPrefixes, n \in {0, 3, 7, 12, 15, 16}}

AatInputs ==
    {[kind |-> "lookup", number_of_glyphs |-> n, extra_size |-> 0, usize_bits |-> 64,
      data |-> l] :
        n \in {1, 3}, l \in LookupInputs}
    \cup StateTableInputs \cup OffsetStateTables

----------------------------------------------------------------------------
(* The AAT engine as a state machine *)

NoQuery == [op |-> "none"]

AatInit ==
    /\ subtable \in AatInputs
    /\ aat = [state |-> "raw"]
    /\ query = NoQuery

\* Lookup::parse
ParseLookup ==
    /\ aat.state = "raw"
    /\ subtable.kind = "lookup"
    /\ aat' = [state |-> "lookup",
               lookup |-> LookupParse(subtable.number_of_glyphs, subtable.data)]
    /\ UNCHANGED <<subtable, query>>

\* ExtendedStateTable::parse, the stream at the first byte of the subtable
ParseStateTable ==
    /\ aat.state = "raw"
    /\ subtable.kind = "state_table"
    /\ LET r == ExtendedStateTableParse(subtable.number_of_glyphs, subtable.data,
                                        subtable.start,
                                        subtable.extra_size)
       IN  aat' = [state |-> "state_table", table |-> r.table, offset |-> r.offset]
    /\ UNCHANGED <<subtable, query>>

\* Lookup::value
Value(g) ==
    /\ aat.state = "lookup"
    /\ aat.lookup.some
    /\ query' = [op |-> "value", glyph |-> g, result |-> LookupValue(aat.lookup.v, g)]
    /\ UNCHANGED <<subtable, aat>>

\* ExtendedStateTable::class
ClassOf(g) ==
    /\ aat.state = "state_table"
    /\ aat.table.some
    /\ query' = [op |-> "class", glyph |-> g, result |-> Class(aat.table.v, g)]
    /\ UNCHANGED <<subtable, aat>>

\* ExtendedStateTable::entry
EntryOf(s, c) ==
    /\ aat.state = "state_table"
    /\ aat.table.some
    /\ s \in FarStates => aat.table.v.number_of_classes = FarClassCount
    /\ \E r \in EntryOutcomes(aat.table.v, s, c) :
          query' = IF r.panic
                   THEN [op |-> "entry", state |-> s, class |-> c, panic |-> TRUE]
                   ELSE [op |-> "entry", state |-> s, class |-> c, panic |-> FALSE,
                         result |-> r.result]
    /\ UNCHANGED <<subtable, aat>>

AatNext ==
    \/ ParseLookup
    \/ ParseStateTable
    \/ \E g \in QueryGlyphs : Value(g)
    \/ \E g \in QueryGlyphs : ClassOf(g)
    \/ \E s \in QueryStates \cup FarStates, c \in QueryClasses : EntryOf(s, c)

----------------------------------------------------------------------------
(* src/src/lib.rs: tags and the table parsers FaceTables binds *)

\* A faulty variant of to_bytes: the bytes come out low byte first
TagToBytesLittleEndian(tag) ==
    <<tag % 256, (tag \div 256) % 256, (tag \div 65536) % 256, (tag \div 16777216) % 256>>

\* Tag::to_bytes: the four bytes of the u32, most significant first
TagToBytes(tag) ==
    <<(tag \div 16777216) % 256, (tag \div 65536) % 256, (tag \div 256) % 256, tag % 256>>

\* Tag::from_bytes
TagFromBytes(b) == ((b[1] * 256 + b[2]) * 256 + b[3]) * 256 + b[4]

\* The derived Ord of Tag: the order of the u32
TagCmp(a, b) == IF a < b THEN "Less" ELSE IF a > b THEN "Greater" ELSE "Equal"

\* The byte strings from_table_provider matches a tag against
B_CBDT == <<67, 66, 68, 84>>
B_CBLC == <<67, 66, 76, 67>>
B_CFF  == <<67, 70, 70, 32>>
B_CFF2 == <<67, 70, 70, 50>>
B_GDEF == <<71, 68, 69, 70>>
B_GPOS == <<71, 80, 79, 83>>
B_GSUB == <<71, 83, 85, 66>>
B_HVAR == <<72, 86, 65, 82>>
B_MVAR == <<77, 86, 65, 82>>
B_OS2  == <<79, 83, 47, 50>>
B_SVG  == <<83, 86, 71, 32>>
B_VORG == <<86, 79, 82, 71>>
B_VVAR == <<86, 86, 65, 82>>
B_avar == <<97, 118, 97, 114>>
B_cmap == <<99, 109, 97, 112>>
B_fvar == <<102, 118, 97, 114>>
B_glyf == <<103, 108, 121, 102>>
B_gvar == <<103, 118, 97, 114>>
B_head == <<104, 101, 97, 100>>
B_hhea == <<104, 104, 101, 97>>
B_hmtx == <<104, 109, 116, 120>>
B_kern == <<107, 101, 114, 110>>
B_loca == <<108, 111, 99, 97>>
B_maxp == <<109, 97, 120, 112>>
B_name == <<110, 97, 109, 101>>
B_post == <<112, 111, 115, 116>>
B_sbix == <<115, 98, 105, 120>>
B_vhea == <<118, 104, 101, 97>>
B_vmtx == <<118, 109, 116, 120>>

(* The table parsers live in crate::tables.  Each is a leaf: it takes a     *)
(* slice and returns none on any malformation.  Of a table's layout only    *)
(* the fields face assembly reads are kept, each a big-endian u16.          *)

\* head::Table::parse: units_per_em, index_to_location_format (0 short, 1 long)
HeadParse(d) ==
    LET units_per_em == ReadU16At(d, 0)
        format == ReadU16At(d, 2)
    IN  IF ~units_per_em.some \/ ~format.some THEN None
        ELSE IF format.v \notin {0, 1} THEN None
        ELSE Some([units_per_em |-> units_per_em.v,
                   index_to_location_format |-> format.v])

\* head::Table::default()
HeadDefault == [units_per_em |-> 0, index_to_location_format |-> 0]

\* hhea::Table::parse and vhea::Table::parse: number_of_metrics
HheaParse(d) ==
    LET number_of_metrics == ReadU16At(d, 0)
    IN  IF ~number_of_metrics.some THEN None
        ELSE Some([number_of_metrics |-> number_of_metrics.v])

HheaDefault == [number_of_metrics |-> 0]

\* maxp::Table::parse: number_of_glyphs, a NonZeroU16
MaxpParse(d) ==
    LET number_of_glyphs == ReadU16At(d, 0)
    IN  IF ~number_of_glyphs.some THEN None
        ELSE IF number_of_glyphs.v = 0 THEN None
        ELSE Some([number_of_glyphs |-> number_of_glyphs.v])

\* fvar::Table::parse: the axis count, which must not be 0
FvarParse(d) ==
    LET axis_count == ReadU16At(d, 0)
    IN  IF ~axis_count.some THEN None
        ELSE IF axis_count.v = 0 THEN None
        ELSE Some([axis_count |-> axis_count.v])

\* The parse of every other optional table: a view of the slice, none when
\* the slice is too short for the table's header
TableParse(d) == IF Len(d) >= 2 THEN Some([data |-> d]) ELSE None

\* hmtx::Table::parse(data, number_of_metrics, number_of_glyphs)
HmtxParse(d, number_of_metrics, number_of_glyphs) ==
    IF number_of_metrics = 0 THEN None
    ELSE IF Len(d) < 4 * number_of_metrics THEN None
    ELSE Some([data |-> d, number_of_metrics |-> number_of_metrics])

\* loca::Table::parse(data, number_of_glyphs, index_to_location_format)
LocaParse(d, number_of_glyphs, format) ==
    IF Len(d) < (IF format = 0 THEN 2 ELSE 4) THEN None
    ELSE Some([data |-> d, format |-> format])

\* glyf::Table::parse(loca_table, data): it cannot fail
GlyfParse(loca_table, d) == [loca_table |-> loca_table, data |-> d]

\* sbix::Table::parse(number_of_glyphs, data)
SbixParse(number_of_glyphs, d) ==
    IF Len(d) >= 2 THEN Some([data |-> d, number_of_glyphs |-> number_of_glyphs])
    ELSE None

MAX_VAR_COORDS == 32

\* VarCoords::default()
VarCoordsDefault == [data |-> [i \in 1..MAX_VAR_COORDS |-> 0], len |-> 0]

Min(a, b) == IF a <= b THEN a ELSE b

----------------------------------------------------------------------------
(* FaceTables::from_table_provider, all crate features on *)

\* The face and the locals before the pass over the provider
InitialAssembly ==
    [face |-> [cbdt |-> None, cblc |-> None, cff |-> None, cmap |-> None,
               gdef |-> None, gpos |-> None, gsub |-> None, glyf |-> None,
               head |-> HeadDefault, hhea |-> HheaDefault, hmtx |-> None,
               kern |-> None, maxp |-> [number_of_glyphs |-> 1], name |-> None,
               os_2 |-> None, post |-> None, vhea |-> None, vmtx |-> None,
               sbix |-> None, svg |-> None, vorg |-> None, avar |-> None,
               cff2 |-> None, fvar |-> None, gvar |-> None, hvar |-> None,
               mvar |-> None, vvar |-> None, coordinates |-> VarCoordsDefault],
     hhea |-> <<>>, maxp |-> None, hmtx |-> None, vmtx |-> None,
     loca |-> None, glyf |-> None, sbix |-> None]

\* A faulty variant of the optional parse: the slice is bound unparsed
ParseOptionalUnparsed(table_data) == table_data

\* table_data.and_then(|data| Table::parse(data)) for a table without arguments
ParseOptional(table_data) == AndThen(table_data, TableParse)

\* A faulty variant of the hmtx arm: the slice is kept only when hhea has
\* been yielded before it
HmtxSliceAfterHhea(st, table_data) == IF st.hhea = <<>> THEN None ELSE table_data

\* The hmtx arm of the match: the slice is kept as it is, to be parsed after
\* the pass whatever the loop has seen so far
HmtxSlice(st, table_data) == table_data

\* A faulty variant of the maxp arm: a maxp bound before is kept when the
\* new item is absent or does not parse
MaxpBindingKeepsValid(st, table_data) ==
    LET maxp == AndThen(table_data, MaxpParse)
    IN  IF maxp.some THEN maxp ELSE st.maxp

\* The maxp arm of the match: whatever was bound before is overwritten
MaxpBinding(st, table_data) == AndThen(table_data, MaxpParse)

\* The body of the loop: the match on the tag's bytes
LoopBody(st, table_tag, table_data) ==
    LET b == TagToBytes(table_tag)
    IN  CASE b = B_CBDT -> [st EXCEPT !.face.cbdt = table_data]
          [] b = B_CBLC -> [st EXCEPT !.face.cblc = table_data]
          [] b = B_CFF  -> [st EXCEPT !.face.cff = ParseOptional(table_data)]
          [] b = B_CFF2 -> [st EXCEPT !.face.cff2 = ParseOptional(table_data)]
          [] b = B_GDEF -> [st EXCEPT !.face.gdef = ParseOptional(table_data)]
          [] b = B_GPOS -> [st EXCEPT !.face.gpos = ParseOptional(table_data)]
          [] b = B_GSUB -> [st EXCEPT !.face.gsub = ParseOptional(table_data)]
          [] b = B_HVAR -> [st EXCEPT !.face.hvar = ParseOptional(table_data)]
          [] b = B_MVAR -> [st EXCEPT !.face.mvar = ParseOptional(table_data)]
          [] b = B_OS2  -> [st EXCEPT !.face.os_2 = ParseOptional(table_data)]
          [] b = B_SVG  -> [st EXCEPT !.face.svg = ParseOptional(table_data)]
          [] b = B_VORG -> [st EXCEPT !.face.vorg = ParseOptional(table_data)]
          [] b = B_VVAR -> [st EXCEPT !.face.vvar = ParseOptional(table_data)]
          [] b = B_avar -> [st EXCEPT !.face.avar = ParseOptional(table_data)]
          [] b = B_cmap -> [st EXCEPT !.face.cmap = ParseOptional(table_data)]
          [] b = B_fvar -> [st EXCEPT !.face.fvar = AndThen(table_data, FvarParse)]
          [] b = B_glyf -> [st EXCEPT !.glyf = table_data]
          [] b = B_gvar -> [st EXCEPT !.face.gvar = ParseOptional(table_data)]
          [] b = B_head ->
                LET head == AndThen(table_data, HeadParse)
                IN  [st EXCEPT !.face.head = IF head.some THEN head.v ELSE HeadDefault]
          [] b = B_hhea ->
                [st EXCEPT !.hhea = IF table_data.some THEN table_data.v ELSE <<>>]
          [] b = B_hmtx -> [st EXCEPT !.hmtx = HmtxSlice(st, table_data)]
          [] b = B_kern -> [st EXCEPT !.face.kern = ParseOptional(table_data)]
          [] b = B_loca -> [st EXCEPT !.loca = table_data]
          [] b = B_maxp -> [st EXCEPT !.maxp = MaxpBinding(st, table_data)]
          [] b = B_name -> [st EXCEPT !.face.name = ParseOptional(table_data)]
          [] b = B_post -> [st EXCEPT !.face.post = ParseOptional(table_data)]
          [] b = B_sbix -> [st EXCEPT !.sbix = table_data]
          [] b = B_vhea -> [st EXCEPT !.face.vhea = AndThen(table_data, HheaParse)]
          [] b = B_vmtx -> [st EXCEPT !.vmtx = table_data]
          [] OTHER -> st

\* A faulty variant of the mandatory checks: maxp is checked before hhea
MandatoryTablesMaxpFirst(st) ==
    IF st.face.head.units_per_em = 0 THEN Err("NoHeadTable")
    ELSE
      LET hhea == HheaParse(st.hhea)
      IN  IF ~st.maxp.some THEN Err("NoMaxpTable")
          ELSE IF ~hhea.some THEN Err("NoHheaTable")
          ELSE Ok([st.face EXCEPT !.hhea = hhea.v, !.maxp = st.maxp.v])

\* After the pass: the three mandatory tables, checked in this order
MandatoryTables(st) ==
    IF st.face.head.units_per_em = 0 THEN Err("NoHeadTable")
    ELSE
      LET hhea == HheaParse(st.hhea)
      IN  IF ~hhea.some THEN Err("NoHheaTable")
          ELSE IF ~st.maxp.some THEN Err("NoMaxpTable")
          ELSE Ok([st.face EXCEPT !.hhea = hhea.v, !.maxp = st.maxp.v])

\* A faulty variant of the length of the coordinate vector: no cap at 32
WithCoordinatesUncapped(f) ==
    IF f.fvar.some
    THEN [f EXCEPT !.coordinates.len = f.fvar.v.axis_count]
    ELSE f

\* The length of the coordinate vector, from fvar
WithCoordinates(f) ==
    IF f.fvar.some
    THEN [f EXCEPT !.coordinates.len = Min(f.fvar.v.axis_count, MAX_VAR_COORDS)]
    ELSE f

\* The tables bound after the pass: hmtx, vmtx, glyf (through loca), sbix
CompositeBindings(f, st) ==
    LET f1 == IF st.hmtx.some
              THEN [f EXCEPT !.hmtx = HmtxParse(st.hmtx.v, f.hhea.number_of_metrics,
                                                f.maxp.number_of_glyphs)]
              ELSE f
        f2 == IF f1.vhea.some /\ st.vmtx.some
              THEN [f1 EXCEPT !.vmtx = HmtxParse(st.vmtx.v, f1.vhea.v.number_of_metrics,
                                                 f1.maxp.number_of_glyphs)]
              ELSE f1
        loca == AndThen(st.loca,
                        LAMBDA d : LocaParse(d, f2.maxp.number_of_glyphs,
                                             f2.head.index_to_location_format))
        f3 == IF loca.some /\ st.glyf.some
              THEN [f2 EXCEPT !.glyf = Some(GlyfParse(loca.v, st.glyf.v))]
              ELSE f2
    IN  IF st.sbix.some
        THEN [f3 EXCEPT !.sbix = SbixParse(f3.maxp.number_of_glyphs, st.sbix.v)]
        ELSE f3

\* from_table_provider once the provider is exhausted
FinishTables(st) ==
    LET checked == MandatoryTables(st)
    IN  IF ~checked.ok THEN checked
        ELSE Ok(CompositeBindings(WithCoordinates(checked.v), st))

\* from_table_provider on a provider that yields `items`, from item i on
RECURSIVE TablesFrom(_, _, _)
TablesFrom(st, items, i) ==
    IF i > Len(items) THEN FinishTables(st)
    ELSE IF ~items[i].ok THEN Err(items[i].e)
    ELSE TablesFrom(LoopBody(st, items[i].tag, items[i].data), items, i + 1)

FromTableProvider(items) == TablesFrom(InitialAssembly, items, 1)

\* FaceTables::has_table
HasTable(f, name) ==
    CASE name \in {"Header", "HorizontalHeader", "MaximumProfile"} -> TRUE
      [] name = "AxisVariations" -> f.avar.some
      [] name = "CharacterToGlyphIndexMapping" -> f.cmap.some
      [] name = "ColorBitmapData" -> f.cbdt.some
      [] name = "ColorBitmapLocation" -> f.cblc.some
      [] name = "CompactFontFormat" -> f.cff.some
      [] name = "CompactFontFormat2" -> f.cff2.some
      [] name = "FontVariations" -> f.fvar.some
      [] name = "GlyphData" -> f.glyf.some
      [] name = "GlyphDefinition" -> f.gdef.some
      [] name = "GlyphPositioningTable" -> f.gpos.some
      [] name = "GlyphSubstitutionTable" -> f.gsub.some
      [] name = "GlyphVariations" -> f.gvar.some
      [] name = "HorizontalMetrics" -> f.hmtx.some
      [] name = "HorizontalMetricsVariations" -> f.hvar.some
      [] name = "IndexToLocation" -> f.glyf.some
      [] name = "Kerning" -> f.kern.some
      [] name = "MetricsVariations" -> f.mvar.some
      [] name = "Naming" -> f.name.some
      [] name = "PostScript" -> f.post.some
      [] name = "ScalableVectorGraphics" -> f.svg.some
      [] name = "StandardBitmapGraphics" -> f.sbix.some
      [] name = "VerticalHeader" -> f.vhea.some
      [] name = "VerticalMetrics" -> f.vmtx.some
      [] name = "VerticalMetricsVariations" -> f.vvar.some
      [] name = "VerticalOrigin" -> f.vorg.some
      [] name = "WindowsMetrics" -> f.os_2.some

----------------------------------------------------------------------------
(* Inputs of face assembly: what a table provider yields *)

OkItem(tagBytes, data) == [ok |-> TRUE, tag |-> TagFromBytes(tagBytes), data |-> data]
ErrItem == [ok |-> FALSE, e |-> "MalformedFont"]

B_unknown == <<122, 122, 122, 122>>

\* Slices: a head with 1000 units per em, one with 0, one cut short; an hhea
\* and a maxp, whole and cut short; a maxp with no glyphs
HeadGood == U16Bytes(1000) \o U16Bytes(0)
HeadZero == U16Bytes(0) \o U16Bytes(0)
HeadShort == <<3>>
HheaGood == U16Bytes(1)
HheaShort == <<0>>
MaxpGood == U16Bytes(3)
MaxpZero == U16Bytes(0)
MaxpShort == <<0>>

\* An optional table's slice: absent, too short for any parser, well-formed
SliceAbsent == None
SliceBad == Some(<<0>>)
SliceGood == Some(<<0, 1, 0, 0>>)
OptionalSlices == {SliceAbsent, SliceBad, SliceGood}

HeadItems == {OkItem(B_head, d) : d \in {None, Some(HeadShort), Some(HeadZero), Some(HeadGood)}}
HheaItems == {OkItem(B_hhea, d) : d \in {None, Some(HheaShort), Some(HheaGood)}}
MaxpItems == {OkItem(B_maxp, d) : d \in {None, Some(MaxpShort), Some(MaxpZero), Some(MaxpGood)}}

MandatoryTags == {B_head, B_hhea, B_maxp}

OptionalTags ==
    {B_CBDT, B_CBLC, B_CFF, B_CFF2, B_GDEF, B_GPOS, B_GSUB, B_HVAR, B_MVAR, B_OS2,
     B_SVG, B_VORG, B_VVAR, B_avar, B_cmap, B_fvar, B_glyf, B_gvar, B_hmtx, B_kern,
     B_loca, B_name, B_post, B_sbix, B_vhea, B_vmtx}

\* The mandatory tables of a stream: each yielded once or left out
MandatoryParts ==
    {h \o x \o m : h \in {<<>>} \cup {<<i>> : i \in HeadItems},
                   x \in {<<>>} \cup {<<i>> : i \in HheaItems},
                   m \in {<<>>} \cup {<<i>> : i \in MaxpItems}}

\* Pairs of tables that are bound together, and a table yielded twice
PairedTags ==
    {<<B_loca, B_glyf>>, <<B_glyf, B_loca>>, <<B_vhea, B_vmtx>>, <<B_vmtx, B_vhea>>,
     <<B_cmap, B_cmap>>, <<B_hmtx, B_hmtx>>}

\* The rest of a stream: nothing, one item (any tag, an error), or a pair
OtherParts ==
    {<<>>, <<ErrItem>>}
    \cup {<<OkItem(t, d)>> : t \in OptionalTags \cup {B_unknown}, d \in OptionalSlices}
    \cup {<<i>> : i \in HeadItems \cup HheaItems \cup MaxpItems}
    \cup {<<OkItem(p[1], d1), OkItem(p[2], d2)>> :
            p \in PairedTags, d1 \in OptionalSlices, d2 \in OptionalSlices}

\* The streams: the mandatory tables before or after the rest
ProviderInputs ==
    {m \o o : m \in MandatoryParts, o \in OtherParts}
    \cup {o \o m : m \in MandatoryParts, o \in OtherParts}

----------------------------------------------------------------------------
(* Face assembly as a state machine: one step per item of the provider *)

TablesInit ==
    /\ provider \in {[items |-> q, pos |-> 1] : q \in ProviderInputs}
    /\ assembly = InitialAssembly
    /\ outcome = None

\* One turn of the loop: the provider yields an error, which is returned ...
YieldError ==
    /\ ~outcome.some
    /\ provider.pos <= Len(provider.items)
    /\ ~provider.items[provider.pos].ok
    /\ outcome' = Some(Err(provider.items[provider.pos].e))
    /\ provider' = [provider EXCEPT !.pos = @ + 1]
    /\ UNCHANGED assembly

\* ... or a table, which is matched by tag
YieldTable ==
    /\ ~outcome.some
    /\ provider.pos <= Len(provider.items)
    /\ provider.items[provider.pos].ok
    /\ assembly' = LoopBody(assembly, provider.items[provider.pos].tag,
                            provider.items[provider.pos].data)
    /\ provider' = [provider EXCEPT !.pos = @ + 1]
    /\ UNCHANGED outcome

\* The provider is exhausted: the mandatory tables and the composite bindings
Finish ==
    /\ ~outcome.some
    /\ provider.pos > Len(provider.items)
    /\ outcome' = Some(FinishTables(assembly))
    /\ UNCHANGED <<provider, assembly>>

TablesNext ==
    \/ YieldError
    \/ YieldTable
    \/ Finish

----------------------------------------------------------------------------
(* src/src/lib.rs: Face::from_slice and the default table provider *)

MAGIC_TRUE_TYPE == 65536            \* 0x00010000
MAGIC_TRUE == 1953658213            \* 0x74727565
MAGIC_OPEN_TYPE == 1330926671       \* 0x4F54544F
MAGIC_COLLECTION == 1953784678      \* 0x74746366

\* Magic::parse on the four bytes at `offset` (s.read::<Magic>())
ReadMagic(data, offset) ==
    LET n == ReadU32At(data, offset)
    IN  IF ~n.some THEN None
        ELSE IF n.v \in {MAGIC_TRUE_TYPE, MAGIC_TRUE} THEN Some("TrueType")
        ELSE IF n.v = MAGIC_OPEN_TYPE THEN Some("OpenType")
        ELSE IF n.v = MAGIC_COLLECTION THEN Some("FontCollection")
        ELSE None

TableRecordSize == 16

\* A u32 that may pass 2^31, kept as its high and its low 16 bits
ReadU32HalvesAt(data, offset) ==
    [hi |-> ReadU16At(data, offset).v, lo |-> ReadU16At(data, offset + 2).v]

\* TableRecord::parse; offset and length are kept in halves
TableRecordParse(b) ==
    [table_tag |-> ReadU32At(b, 0).v, check_sum |-> ReadU32HalvesAt(b, 4),
     offset |-> ReadU32HalvesAt(b, 8), length |-> ReadU32HalvesAt(b, 12)]

\* The width of usize on the target the crate is built for
UsizeBits == font.usize_bits

\* usize::checked_add of two values that came from u32 (usize::num_from):
\* on a 32-bit target a sum of 2^32 or more is none, on a 64-bit target
\* every sum fits.  The sum is in halves, its high half up to 17 bits.
CheckedAddUsize(a, b) ==
    LET lo == a.lo + b.lo
        hi == a.hi + b.hi + lo \div U16Modulus
    IN  IF UsizeBits = 32 /\ hi >= U16Modulus THEN None
        ELSE Some([hi |-> hi, lo |-> lo % U16Modulus])

\* slice.get(from..to) for bounds in halves; the buffers here are shorter
\* than 2^16 bytes, so a bound with a high half lies outside
GetUsizeRange(data, from, to) ==
    IF from.hi = 0 /\ to.hi = 0 THEN GetRange(data, from.lo, to.lo) ELSE None

\* A faulty variant of the provider: a range whose end overflows is yielded
\* as an absent table
DefaultProviderItemOverflowIsAbsent(data, table) ==
    LET end == CheckedAddUsize(table.offset, table.length)
    IN  IF ~end.some THEN [ok |-> TRUE, tag |-> table.table_tag, data |-> None]
        ELSE [ok |-> TRUE, tag |-> table.table_tag,
              data |-> GetUsizeRange(data, table.offset, end.v)]

\* DefaultTableProvider::next for one record of the directory
DefaultProviderItem(data, table) ==
    LET end == CheckedAddUsize(table.offset, table.length)
    IN  IF ~end.some THEN [ok |-> FALSE, e |-> "MalformedFont"]
        ELSE [ok |-> TRUE, tag |-> table.table_tag,
              data |-> GetUsizeRange(data, table.offset, end.v)]

\* The items DefaultTableProvider yields: one per record, in directory order
DefaultProviderItems(data, table_records) ==
    [i \in 1..table_records.count |->
        DefaultProviderItem(data, TableRecordParse(ArrayGet(table_records, i - 1).v))]

\* A faulty variant of the walk through a collection: the seek to the face is
\* unchecked (advance for advance_checked)
SelectCollectionFaceUncheckedSeek(data, index) ==
    LET number_of_faces == ReadU32At(data, 8)
    IN  IF ~number_of_faces.some THEN Err("MalformedFont")
        ELSE
          LET after == 12 + 4 * number_of_faces.v
          IN  IF after > Len(data) THEN Err("MalformedFont")
              ELSE IF index >= number_of_faces.v THEN Err("FaceIndexOutOfBounds")
              ELSE
                LET face_offset == ReadU32At(data, 12 + 4 * index).v
                IN  IF face_offset < after THEN Err("MalformedFont")
                    ELSE
                      LET magic == ReadMagic(data, face_offset)
                      IN  IF ~magic.some THEN Err("UnknownMagic")
                          ELSE IF magic.v = "FontCollection" THEN Err("UnknownMagic")
                          ELSE Ok(face_offset + 4)

\* A faulty variant of the walk through a collection: a face that is itself a
\* collection is let through
SelectCollectionFaceNested(data, index) ==
    LET number_of_faces == ReadU32At(data, 8)
    IN  IF ~number_of_faces.some THEN Err("MalformedFont")
        ELSE
          LET after == 12 + 4 * number_of_faces.v
          IN  IF after > Len(data) THEN Err("MalformedFont")
              ELSE IF index >= number_of_faces.v THEN Err("FaceIndexOutOfBounds")
              ELSE
                LET face_offset == ReadU32At(data, 12 + 4 * index).v
                IN  IF face_offset < after THEN Err("MalformedFont")
                    ELSE IF face_offset > Len(data) THEN Err("MalformedFont")
                    ELSE
                      LET magic == ReadMagic(data, face_offset)
                      IN  IF ~magic.some THEN Err("UnknownMagic")
                          ELSE Ok(face_offset + 4)

\* A faulty variant of the collection header: the face index is compared with
\* the face count before the offset array is read
SelectCollectionFaceIndexFirst(data, index) ==
    LET number_of_faces == ReadU32At(data, 8)
    IN  IF ~number_of_faces.some THEN Err("MalformedFont")
        ELSE
          LET after == 12 + 4 * number_of_faces.v
          IN  IF index >= number_of_faces.v THEN Err("FaceIndexOutOfBounds")
              ELSE IF after > Len(data) THEN Err("MalformedFont")
              ELSE
                LET face_offset == ReadU32At(data, 12 + 4 * index).v
                IN  IF face_offset < after THEN Err("MalformedFont")
                    ELSE IF face_offset > Len(data) THEN Err("MalformedFont")
                    ELSE
                      LET magic == ReadMagic(data, face_offset)
                      IN  IF ~magic.some THEN Err("UnknownMagic")
                          ELSE IF magic.v = "FontCollection" THEN Err("UnknownMagic")
                          ELSE Ok(face_offset + 4)

\* from_slice inside a collection, the stream past the collection's magic:
\* the stream's offset past the selected face's magic, or the error
SelectCollectionFace(data, index) ==
    LET number_of_faces == ReadU32At(data, 8)      \* s.skip::<u32>() is unchecked
    IN  IF ~number_of_faces.some THEN Err("MalformedFont")
        ELSE
          LET after == 12 + 4 * number_of_faces.v  \* s.offset() past the array
          IN  IF after > Len(data) THEN Err("MalformedFont")
              ELSE IF index >= number_of_faces.v THEN Err("FaceIndexOutOfBounds")
              ELSE
                LET face_offset == ReadU32At(data, 12 + 4 * index).v
                IN  IF face_offset < after THEN Err("MalformedFont")
                    ELSE IF face_offset > Len(data) THEN Err("MalformedFont")
                    ELSE
                      LET magic == ReadMagic(data, face_offset)
                      IN  IF ~magic.some THEN Err("UnknownMagic")
                          ELSE IF magic.v = "FontCollection" THEN Err("UnknownMagic")
                          ELSE Ok(face_offset + 4)

\* A faulty variant of the font magic read: a buffer too short for a magic is
\* reported as malformed
SelectFaceShortIsMalformed(data, index) ==
    LET magic == ReadMagic(data, 0)
    IN  IF Len(data) < 4 THEN Err("MalformedFont")
        ELSE IF ~magic.some THEN Err("UnknownMagic")
        ELSE IF magic.v = "FontCollection" THEN SelectCollectionFace(data, index)
        ELSE Ok(4)

\* from_slice up to the face's table count: the font magic, and in a
\* collection the choice of the face
SelectFace(data, index) ==
    LET magic == ReadMagic(data, 0)
    IN  IF ~magic.some THEN Err("UnknownMagic")
        ELSE IF magic.v = "FontCollection" THEN SelectCollectionFace(data, index)
        ELSE Ok(4)

\* from_slice from the table count on, the stream at `offset`.  The face holds
\* the directory and the tables; its font_data is the buffer itself.
ParseFace(data, offset) ==
    LET num_tables == ReadU16At(data, offset)
    IN  IF ~num_tables.some THEN Err("MalformedFont")
        ELSE
          \* s.advance(6) is unchecked
          LET table_records == ReadArray16(data, offset + 8, TableRecordSize, num_tables.v)
          IN  IF ~table_records.some THEN Err("MalformedFont")
              ELSE
                LET tables == FromTableProvider(DefaultProviderItems(data, table_records.v))
                IN  IF ~tables.ok THEN tables
                    ELSE Ok([table_records |-> table_records.v, tables |-> tables.v])

\* Face::from_slice
FromSlice(data, index) ==
    LET selected == SelectFace(data, index)
    IN  IF ~selected.ok THEN selected ELSE ParseFace(data, selected.v)

\* A faulty variant of the search: a record that matches in the middle of the
\* range is taken for a greater one
RECURSIVE BinarySearchByTagEqualIsGreater(_, _, _, _)
BinarySearchByTagEqualIsGreater(arr, tag, base, size) ==
    IF size = 0 THEN None
    ELSE IF size > 1
    THEN LET half == size \div 2
             mid == base + half
             ord == TagCmp(TableRecordParse(ArrayGet(arr, mid).v).table_tag, tag)
         IN  BinarySearchByTagEqualIsGreater(arr, tag,
                                             IF ord = "Less" THEN mid ELSE base, size - half)
    ELSE LET table == TableRecordParse(ArrayGet(arr, base).v)
         IN  IF TagCmp(table.table_tag, tag) = "Equal" THEN Some(table) ELSE None

\* LazyArray16::binary_search_by with the comparator |record|
\* record.table_tag.cmp(&tag): the range [base, base + size) is halved until
\* one element is left, which is then compared
RECURSIVE BinarySearchByTag(_, _, _, _)
BinarySearchByTag(arr, tag, base, size) ==
    IF size = 0 THEN None
    ELSE IF size > 1
    THEN LET half == size \div 2
             mid == base + half
             ord == TagCmp(TableRecordParse(ArrayGet(arr, mid).v).table_tag, tag)
         IN  BinarySearchByTag(arr, tag, IF ord = "Greater" THEN base ELSE mid, size - half)
    ELSE LET table == TableRecordParse(ArrayGet(arr, base).v)
         IN  IF TagCmp(table.table_tag, tag) = "Equal" THEN Some(table) ELSE None

\* A faulty variant of table_data: a range that ends past the buffer is cut
\* to the buffer
TableDataClamped(font_data, table_records, tag) ==
    LET found == BinarySearchByTag(table_records, tag, 0, table_records.count)
    IN  IF ~found.some THEN None
        ELSE
          LET end == CheckedAddUsize(found.v.offset, found.v.length)
          IN  IF ~end.some THEN None
              ELSE GetRange(font_data,
                            IF found.v.offset.hi = 0
                            THEN Min(found.v.offset.lo, Len(font_data)) ELSE Len(font_data),
                            IF end.v.hi = 0
                            THEN Min(end.v.lo, Len(font_data)) ELSE Len(font_data))

\* Face::table_data
TableData(font_data, table_records, tag) ==
    LET found == BinarySearchByTag(table_records, tag, 0, table_records.count)
    IN  IF ~found.some THEN None
        ELSE
          LET end == CheckedAddUsize(found.v.offset, found.v.length)
          IN  IF ~end.some THEN None
              ELSE GetUsizeRange(font_data, found.v.offset, end.v)

\* The directory from_slice reads: the records behind the selected face's
\* table count, none when from_slice fails before it has them
Directory(data, index) ==
    LET selected == SelectFace(data, index)
    IN  IF ~selected.ok THEN None
        ELSE LET num_tables == ReadU16At(data, selected.v)
             IN  IF ~num_tables.some THEN None
                 ELSE ReadArray16(data, selected.v + 8, TableRecordSize, num_tables.v)

----------------------------------------------------------------------------
(* Inputs of Face::from_slice: fonts serialised to bytes, whole and cut short *)

MaxFaces == 2           \* faces of a collection

\* The tables of a well-formed face, in tag order, and faces lacking one
GoodTables == <<<<B_head, HeadGood>>, <<B_hhea, HheaGood>>, <<B_maxp, MaxpGood>>>>
TableSets ==
    {GoodTables,
     <<<<B_head, HeadGood>>, <<B_hhea, HheaGood>>>>,
     <<<<B_head, HeadZero>>, <<B_hhea, HheaGood>>, <<B_maxp, MaxpGood>>>>,
     <<>>,
     \* a raw table before and one after the mandatory ones, in tag order
     <<<<B_CBDT, <<7, 8>>>>, <<B_head, HeadGood>>, <<B_hhea, HheaGood>>,
       <<B_maxp, MaxpGood>>, <<B_unknown, <<1, 2, 3>>>>>>,
     \* a directory out of tag order, and one with a tag twice
     <<<<B_unknown, <<1, 2, 3>>>>, <<B_maxp, MaxpGood>>, <<B_hhea, HheaGood>>,
       <<B_head, HeadGood>>>>,
     <<<<B_head, HeadGood>>, <<B_hhea, HheaGood>>, <<B_maxp, MaxpGood>>,
       <<B_maxp, MaxpZero>>>>}

\* The bytes before table k's data in a face image: directory and tables 1..k-1
RECURSIVE DataBefore(_, _)
DataBefore(tables, k) ==
    IF k = 1 THEN 12 + TableRecordSize * Len(tables)
    ELSE DataBefore(tables, k - 1) + Len(tables[k - 1][2])

\* A face at byte `base` of the file: magic, table count, search hints, the
\* records (offsets from the start of the file), then the tables' data
FaceImage(base, magic, tables) ==
    magic \o U16Bytes(Len(tables)) \o <<0, 0, 0, 0, 0, 0>>
        \o Concat([k \in 1..Len(tables) |->
                     tables[k][1] \o U32Bytes(0)
                        \o U32Bytes(base + DataBefore(tables, k))
                        \o U32Bytes(Len(tables[k][2]))])
        \o Concat([k \in 1..Len(tables) |-> tables[k][2]])

FaceImageSize(tables) == DataBefore(tables, Len(tables) + 1)

\* Offset and length of a record that points far outside any buffer: sums
\* of 2^32 and more, and sums just below
FarRanges ==
    {<<<<255, 255, 255, 255>>, <<0, 0, 0, 1>>>>, <<<<128, 0, 0, 0>>, <<128, 0, 0, 0>>>>,
     <<<<0, 0, 255, 255>>, <<255, 255, 0, 1>>>>, <<<<255, 255, 255, 255>>, <<0, 0, 0, 0>>>>,
     <<<<127, 255, 255, 255>>, <<127, 255, 255, 255>>>>}

\* A face at byte 0 with one record more than it has tables: the record of a
\* far range, first in the directory (as CBDT) or last (under an unknown tag)
FarImage(tables, range, first) ==
    LET far == (IF first THEN B_CBDT ELSE B_unknown) \o U32Bytes(0) \o range[1] \o range[2]
        records == Concat([k \in 1..Len(tables) |->
                             tables[k][1] \o U32Bytes(0)
                                \o U32Bytes(TableRecordSize + DataBefore(tables, k))
                                \o U32Bytes(Len(tables[k][2]))])
    IN  U32Bytes(MAGIC_TRUE_TYPE) \o U16Bytes(Len(tables) + 1) \o <<0, 0, 0, 0, 0, 0>>
            \o (IF first THEN far \o records ELSE records \o far)
            \o Concat([k \in 1..Len(tables) |-> tables[k][2]])

\* The magics a face may start with: two TrueType ones, OpenType, the
\* collection's, and two that are no magic
MagicBytes(kind) ==
    CASE kind = "truetype" -> U32Bytes(MAGIC_TRUE_TYPE)
      [] kind = "true" -> U32Bytes(MAGIC_TRUE)
      [] kind = "opentype" -> U32Bytes(MAGIC_OPEN_TYPE)
      [] kind = "collection" -> U32Bytes(MAGIC_COLLECTION)
      [] kind = "wOFF" -> <<119, 79, 70, 70>>
      [] kind = "version2" -> <<0, 2, 0, 0>>

FontKinds == {"truetype", "true", "opentype", "wOFF", "version2"}
FaceKinds == {"truetype", "opentype", "collection"}

\* A collection of well-formed faces of the given kinds, one after the other
\* behind the header; `declared` is the face count the header states
CollectionImage(kinds, declared) ==
    LET header == 12 + 4 * Len(kinds)
        size == FaceImageSize(GoodTables)
    IN  U32Bytes(MAGIC_COLLECTION) \o U32Bytes(65536) \o U32Bytes(declared)
            \o Concat([k \in 1..Len(kinds) |-> U32Bytes(header + (k - 1) * size)])
            \o Concat([k \in 1..Len(kinds) |->
                         FaceImage(header + (k - 1) * size, MagicBytes(kinds[k]), GoodTables)])

\* A collection of one well-formed face whose offset the header misstates
MisplacedImage(face_offset) ==
    U32Bytes(MAGIC_COLLECTION) \o U32Bytes(65536) \o U32Bytes(1) \o U32Bytes(face_offset)
        \o FaceImage(16, MagicBytes("truetype"), GoodTables)

\* Whole files, each with the plan it was built from
FontImages ==
    {[plan |-> [kind |-> "font", magic |-> m, tables |-> t],
      image |-> FaceImage(0, MagicBytes(m), t)] : m \in FontKinds, t \in TableSets}
    \cup
    {[plan |-> [kind |-> "collection", faces |-> k, declared |-> Len(k)],
      image |-> CollectionImage(k, Len(k))] : k \in SeqsUpTo(FaceKinds, MaxFaces)}
    \cup
    {[plan |-> [kind |-> "collection", faces |-> <<"truetype">>, declared |-> n],
      image |-> CollectionImage(<<"truetype">>, n)] : n \in {0, 2, 1000}}
    \cup
    {[plan |-> [kind |-> "far", tables |-> t, range |-> r, first |-> f],
      image |-> FarImage(t, r, f)] :
        t \in {GoodTables, <<<<B_head, HeadGood>>, <<B_hhea, HheaGood>>>>, <<>>},
        r \in FarRanges, f \in BOOLEAN}
    \cup
    {[plan |-> [kind |-> "misplaced", face_offset |-> o],
      image |-> MisplacedImage(o)] : o \in {0, 12, 16 + FaceImageSize(GoodTables) - 2,
                                           16 + FaceImageSize(GoodTables),
                                           17 + FaceImageSize(GoodTables)}}

FaceIndexes == 0..(MaxFaces + 1)

\* The targets a file is read on: the width of usize matters to the far
\* ranges only
UsizeWidths(f) == IF f.plan.kind = "far" THEN {32, 64} ELSE {64}

\* The face indexes a file is asked for: the files with far ranges are no
\* collections, and are asked for face 0 only
IndexesOf(f) == IF f.plan.kind = "far" THEN {0} ELSE FaceIndexes

\* A buffer: file f cut to its first n bytes, the face index asked for, and
\* the target's usize
FontInput(f, n, i, bits) ==
    [plan |-> f.plan, whole |-> (n = Len(f.image)), data |-> SubSeq(f.image, 1, n),
     index |-> i, usize_bits |-> bits]

----------------------------------------------------------------------------
(* Face construction as a state machine *)

\* Every file, whole and cut at every length, with every face index
FaceInit ==
    /\ \E f \in FontImages : \E n \in 0..Len(f.image), i \in IndexesOf(f),
                                 bits \in UsizeWidths(f) :
          font = FontInput(f, n, i, bits)
    /\ face = None

\* Face::from_slice(data, index)
FromSliceCall ==
    /\ ~face.some
    /\ face' = Some(FromSlice(font.data, font.index))
    /\ UNCHANGED <<font, call>>

\* The tags table_data is asked for: bound, raw, unknown and absent ones
QueryTags == {TagFromBytes(b) : b \in {B_CBDT, B_head, B_hhea, B_maxp, B_name, B_unknown}}

\* face.table_data(tag) on the face from_slice returned
TableDataCall(tag) ==
    /\ face.some /\ face.v.ok
    /\ call' = [op |-> "table_data", tag |-> tag,
                result |-> TableData(font.data, face.v.v.table_records, tag)]
    /\ UNCHANGED <<font, face>>

\* DefaultTableProvider::next, as from_slice ran it on record i of the directory
ProviderNextCall(i) ==
    LET table_records == Directory(font.data, font.index)
    IN  /\ face.some
        /\ table_records.some
        /\ i < table_records.v.count
        /\ call' = [op |-> "provider_next", record |-> i,
                    result |-> DefaultProviderItem(font.data,
                                    TableRecordParse(ArrayGet(table_records.v, i).v))]
        /\ UNCHANGED <<font, face>>

MaxRecords == 5         \* records of a directory

FaceNext ==
    \/ FromSliceCall
    \/ \E tag \in QueryTags : TableDataCall(tag)
    \/ \E i \in 0..(MaxRecords - 1) : ProviderNextCall(i)

----------------------------------------------------------------------------
(* src/src/lib.rs: Tag.  A tag is its u32; the first byte of the tags made  *)
(* here stays below 0x80.                                                   *)

TAG_PAD == 32           \* b' '

\* A faulty variant of from_bytes_lossy: the missing bytes are set to 0
FromBytesLossyZeroPad(bytes) ==
    LET at(k) == IF k <= Len(bytes) THEN bytes[k] ELSE 0
    IN  TagFromBytes(<<at(1), at(2), at(3), at(4)>>)

\* Tag::from_bytes_lossy: the iterator is the bytes followed by spaces
FromBytesLossy(bytes) ==
    IF bytes = <<>> THEN TagFromBytes(<<0, 0, 0, 0>>)
    ELSE LET iter(k) == IF k <= Len(bytes) THEN bytes[k] ELSE TAG_PAD
         IN  TagFromBytes(<<iter(1), iter(2), iter(3), iter(4)>>)

MaxLossyLen == 5        \* longest input of from_bytes_lossy

LeadBytes == {0, 32, 65, 127}
TailBytes == {0, 31, 32, 65, 255}

\* Byte strings of length n: a lead byte, then tail bytes
RECURSIVE ByteStrings(_)
ByteStrings(n) ==
    IF n = 0 THEN {<<>>}
    ELSE IF n = 1 THEN {<<b>> : b \in LeadBytes}
    ELSE {Append(q, b) : q \in ByteStrings(n - 1), b \in TailBytes}

NoCall == [op |-> "none"]

TagInit == call = NoCall

\* Tag::from_bytes(b).to_bytes()
FromBytesToBytes(b) ==
    /\ call' = [op |-> "from_bytes", bytes |-> b, tag |-> TagFromBytes(b),
                result |-> TagToBytes(TagFromBytes(b))]

\* Tag::from_bytes(&Tag(t).to_bytes())
ToBytesFromBytes(t) ==
    /\ call' = [op |-> "to_bytes", tag |-> t, bytes |-> TagToBytes(t),
                result |-> TagFromBytes(TagToBytes(t))]

\* Tag::from_bytes_lossy(bytes)
FromBytesLossyCall(bytes) ==
    /\ call' = [op |-> "from_bytes_lossy", bytes |-> bytes,
                result |-> FromBytesLossy(bytes)]

\* a.cmp(&b) on two tags
TagCmpCall(a, b) ==
    /\ call' = [op |-> "cmp", a |-> a, b |-> b, result |-> TagCmp(a, b)]

TagNext ==
    /\ call = NoCall
    /\ \/ \E b \in ByteStrings(4) : FromBytesToBytes(b)
       \/ \E b \in ByteStrings(4) : ToBytesFromBytes(TagFromBytes(b))
       \/ \E n \in 0..MaxLossyLen : \E b \in ByteStrings(n) : FromBytesLossyCall(b)
       \/ \E x \in ByteStrings(4), y \in ByteStrings(4) :
             /\ x[1] \in {0, 127} /\ y[1] \in {0, 127}
             /\ x[3] = 32 /\ y[3] = 32
             /\ TagCmpCall(TagFromBytes(x), TagFromBytes(y))
    /\ UNCHANGED face_tables

----------------------------------------------------------------------------
(* src/src/lib.rs: the queries on FaceTables.  An f32 axis value is an      *)
(* integer here; a coordinate is its i16 in 2.14 fixed point.  The tables   *)
(* the queries read are views with the fields read from them.               *)

I16_MIN == -32768
I16_MAX == 32767
ONE_F2DOT14 == 16384

\* FaceTables::is_variable
IsVariable(f) == f.fvar.some

\* FaceTables::variation_axes
VariationAxes(f) == IF f.fvar.some THEN f.fvar.v.axes ELSE <<>>

\* A faulty variant of the search for the axis: the last axis with the tag
RECURSIVE FindAxisLast(_, _, _)
FindAxisLast(axes, axis, idx) ==
    IF idx >= Len(axes) THEN None
    ELSE LET later == FindAxisLast(axes, axis, idx + 1)
         IN  IF later.some THEN later
             ELSE IF axes[idx + 1].tag = axis
                  THEN Some([idx |-> idx, a |-> axes[idx + 1]])
                  ELSE None

\* variation_axes().enumerate().find(|(_, a)| a.tag == axis), from index idx on
RECURSIVE FindAxis(_, _, _)
FindAxis(axes, axis, idx) ==
    IF idx >= Len(axes) THEN None
    ELSE IF axes[idx + 1].tag = axis THEN Some([idx |-> idx, a |-> axes[idx + 1]])
    ELSE FindAxis(axes, axis, idx + 1)

\* f32_bound / i16_bound
Bound(min, v, max) == IF v < min THEN min ELSE IF v > max THEN max ELSE v

\* Division truncating toward zero, as `as i16` does on a fraction
TruncDiv(a, b) == IF a >= 0 THEN a \div b ELSE -((-a) \div b)

\* fvar::VariationAxis::normalized_value
NormalizedValue(a, value) ==
    LET v == Bound(a.min_value, value, a.max_value)
    IN  IF v = a.def_value THEN 0
        ELSE IF v < a.def_value
             THEN TruncDiv((v - a.def_value) * ONE_F2DOT14, a.def_value - a.min_value)
             ELSE TruncDiv((v - a.def_value) * ONE_F2DOT14, a.max_value - a.def_value)

\* One segment map of avar, with one point (from, to) between 0 and 1:
\* the coordinate is interpolated below and above the point
AvarMapValue(map, c) ==
    IF c <= 0 THEN c
    ELSE IF c <= map.from THEN TruncDiv(c * map.to, map.from)
    ELSE map.to + TruncDiv((c - map.from) * (ONE_F2DOT14 - map.to), ONE_F2DOT14 - map.from)

\* avar::Table::map_coordinates on coordinates.as_mut_slice(): the slice is
\* left alone when its length is not the number of segment maps
AvarMapCoordinates(avar, coordinates) ==
    IF Len(avar.segment_maps) # coordinates.len THEN coordinates
    ELSE [coordinates EXCEPT !.data =
            [i \in 1..MAX_VAR_COORDS |->
                IF i <= coordinates.len THEN AvarMapValue(avar.segment_maps[i], @[i])
                ELSE @[i]]]

\* FaceTables::set_variation: the face after the call and the value returned
SetVariation(f, axis, value) ==
    IF ~IsVariable(f) THEN [face |-> f, result |-> None]
    ELSE
      LET v == FindAxis(VariationAxes(f), axis, 0)
      IN  IF ~v.some THEN [face |-> f, result |-> None]
          ELSE IF v.v.idx >= MAX_VAR_COORDS THEN [face |-> f, result |-> None]
          ELSE
            LET f1 == [f EXCEPT !.coordinates.data[v.v.idx + 1] = NormalizedValue(v.v.a, value)]
                f2 == IF f1.avar.some
                      THEN [f1 EXCEPT !.coordinates = AvarMapCoordinates(f1.avar.v, @)]
                      ELSE f1
            IN  [face |-> f2, result |-> Some(<<>>)]

\* VarCoords::as_slice, FaceTables::variation_coordinates, FaceTables::coords
VariationCoordinates(f) == SubSeq(f.coordinates.data, 1, f.coordinates.len)

\* The tags of the metrics MVAR varies
T_hasc == TagFromBytes(<<104, 97, 115, 99>>)
T_hdsc == TagFromBytes(<<104, 100, 115, 99>>)
T_hlgp == TagFromBytes(<<104, 108, 103, 112>>)
T_hcla == TagFromBytes(<<104, 99, 108, 97>>)
T_hcld == TagFromBytes(<<104, 99, 108, 100>>)

\* mvar::Table::metrics_offset(tag, coords), in halves of a unit: the delta
\* the table holds for the tag, scaled by the first coordinate; none when the
\* table has no record for the tag
MetricsOffset(table, tag, coords) ==
    IF tag \notin DOMAIN table.deltas THEN None
    ELSE IF coords = <<>> THEN Some(0)
    ELSE Some(TruncDiv(table.deltas[tag] * coords[1], ONE_F2DOT14))

\* FaceTables::metrics_var_offset, in halves of a unit
MetricsVarOffset(f, tag) ==
    LET offset == AndThen(f.mvar, LAMBDA table : MetricsOffset(table, tag, VariationCoordinates(f)))
    IN  IF offset.some THEN offset.v ELSE 0

\* i16::try_num_from(f32), the f32 given in halves: the fraction is cut
\* off, and a value outside i16 gives none
TryI16FromHalves(v2) ==
    LET n == TruncDiv(v2, 2)
    IN  IF n >= I16_MIN /\ n <= I16_MAX THEN Some(n) ELSE None

\* FaceTables::apply_metrics_variation (through apply_metrics_variation_to)
ApplyMetricsVariation(f, tag, value) ==
    IF IsVariable(f)
    THEN LET v == TryI16FromHalves(2 * value + MetricsVarOffset(f, tag))
         IN  IF v.some THEN v.v ELSE value
    ELSE value

\* FaceTables::ascender
Ascender(f) ==
    IF f.os_2.some /\ f.os_2.v.use_typographic_metrics
    THEN ApplyMetricsVariation(f, T_hasc, f.os_2.v.typographic_ascender)
    ELSE
      LET value == f.hhea.ascender
      IN  IF value = 0 /\ f.os_2.some
          THEN IF f.os_2.v.typographic_ascender = 0
               THEN ApplyMetricsVariation(f, T_hcla, f.os_2.v.windows_ascender)
               ELSE ApplyMetricsVariation(f, T_hasc, f.os_2.v.typographic_ascender)
          ELSE value

\* FaceTables::descender
Descender(f) ==
    IF f.os_2.some /\ f.os_2.v.use_typographic_metrics
    THEN ApplyMetricsVariation(f, T_hdsc, f.os_2.v.typographic_descender)
    ELSE
      LET value == f.hhea.descender
      IN  IF value = 0 /\ f.os_2.some
          THEN IF f.os_2.v.typographic_descender = 0
               THEN ApplyMetricsVariation(f, T_hcld, f.os_2.v.windows_descender)
               ELSE ApplyMetricsVariation(f, T_hdsc, f.os_2.v.typographic_descender)
          ELSE value

\* A faulty variant of line_gap: a typographic line gap of zero is returned
\* as it is, without the variation of hlgp
LineGapZeroUnadjusted(f) ==
    IF f.os_2.some /\ f.os_2.v.use_typographic_metrics
    THEN ApplyMetricsVariation(f, T_hlgp, f.os_2.v.typographic_line_gap)
    ELSE
      LET value == f.hhea.line_gap
      IN  IF value = 0 /\ f.os_2.some
          THEN IF f.os_2.v.typographic_line_gap = 0 THEN 0
               ELSE ApplyMetricsVariation(f, T_hlgp, f.os_2.v.typographic_line_gap)
          ELSE value

\* FaceTables::line_gap
LineGap(f) ==
    IF f.os_2.some /\ f.os_2.v.use_typographic_metrics
    THEN ApplyMetricsVariation(f, T_hlgp, f.os_2.v.typographic_line_gap)
    ELSE
      LET value == f.hhea.line_gap
      IN  IF value = 0 /\ f.os_2.some
          THEN ApplyMetricsVariation(f, T_hlgp, f.os_2.v.typographic_line_gap)
          ELSE value

I16_MODULUS == 65536

\* An integer wrapped into i16, as a release build's subtraction does
WrapI16(n) == ((n - I16_MIN) % I16_MODULUS) + I16_MIN

\* FaceTables::height: ascender() - descender() on i16.  When the difference
\* leaves i16 the build decides: a panic (overflow checks on) or the
\* wrapped value (overflow checks off)
Height(f) ==
    LET n == Ascender(f) - Descender(f)
    IN  IF n >= I16_MIN /\ n <= I16_MAX THEN {[panic |-> FALSE, v |-> n]}
        ELSE {[panic |-> TRUE], [panic |-> FALSE, v |-> WrapI16(n)]}

\* glyf::Table::outline, cff::Table::outline(..).ok(), cff2::Table::outline(..).ok()
\* and gvar::outline: the rectangle the table holds for the glyph, if any
TableOutline(table, glyph_id) ==
    IF glyph_id \in DOMAIN table.outlines THEN table.outlines[glyph_id] ELSE None

\* A faulty variant: a source that fails for the glyph is passed over and
\* the next one is asked
OutlineGlyphFallThrough(f, glyph_id) ==
    LET gvar == IF f.gvar.some /\ f.glyf.some THEN TableOutline(f.gvar.v, glyph_id) ELSE None
        glyf == IF f.glyf.some THEN TableOutline(f.glyf.v, glyph_id) ELSE None
        cff == IF f.cff.some THEN TableOutline(f.cff.v, glyph_id) ELSE None
        cff2 == IF f.cff2.some THEN TableOutline(f.cff2.v, glyph_id) ELSE None
    IN  IF gvar.some THEN gvar
        ELSE IF glyf.some THEN glyf
        ELSE IF cff.some THEN cff
        ELSE cff2

\* FaceTables::outline_glyph
OutlineGlyph(f, glyph_id) ==
    IF f.gvar.some
    THEN IF ~f.glyf.some THEN None ELSE TableOutline(f.gvar.v, glyph_id)
    ELSE IF f.glyf.some THEN TableOutline(f.glyf.v, glyph_id)
    ELSE IF f.cff.some THEN TableOutline(f.cff.v, glyph_id)
    ELSE IF f.cff2.some THEN TableOutline(f.cff2.v, glyph_id)
    ELSE None

----------------------------------------------------------------------------
(* The faces the queries are made on, each as from_table_provider leaves it *)

T_wght == TagFromBytes(<<119, 103, 104, 116>>)
T_wdth == TagFromBytes(<<119, 100, 116, 104>>)
T_opsz == TagFromBytes(<<111, 112, 115, 122>>)
T_ital == TagFromBytes(<<105, 116, 97, 108>>)

\* An axis from 100 over 400 (the default) to 900
Axis(tag) == [tag |-> tag, min_value |-> 100, def_value |-> 400, max_value |-> 900]

\* n axes: wght in place p, wdth in place q (0: nowhere), opsz everywhere else
AxisList(n, p, q) ==
    [k \in 1..n |-> Axis(IF k = p THEN T_wght ELSE IF k = q THEN T_wdth ELSE T_opsz)]

AxisCounts == {1, 2, 31, 32, 33, 34}

AxisLists ==
    {AxisList(n, p, q) : n \in AxisCounts, p \in {0, 1, 32, 33, 34}, q \in {0, 2}}

\* An avar with n segment maps
AvarOf(n) == [segment_maps |-> [k \in 1..n |-> [from |-> 8192, to |-> 4096]]]

\* An MVAR with deltas, in halves of a unit, for some of the tags
MvarTables ==
    {[deltas |-> [t \in {T_hasc, T_hdsc, T_hlgp, T_hcla, T_hcld} |-> 41]],
     [deltas |-> [t \in {T_hasc, T_hcld} |-> 3000]]}

HheaViews ==
    {[number_of_metrics |-> 1, ascender |-> m[1], descender |-> m[2], line_gap |-> m[3]] :
        m \in {<<0, 0, 0>>, <<800, -200, 90>>, <<I16_MAX, I16_MIN, 0>>,
               <<0, -200, 0>>, <<I16_MIN, I16_MAX, 5>>}}

Os2Views ==
    {[use_typographic_metrics |-> u,
      typographic_ascender |-> t[1], typographic_descender |-> t[2],
      typographic_line_gap |-> t[3],
      windows_ascender |-> w[1], windows_descender |-> w[2]] :
        u \in BOOLEAN,
        t \in {<<0, 0, 0>>, <<700, -300, 80>>, <<I16_MAX, -1, 0>>},
        w \in {<<900, -400>>, <<0, 0>>}}

\* The rectangle a table holds for a glyph; its size tells the table
OutlineRect(source) == [x_min |-> 0, y_min |-> 0, x_max |-> source, y_max |-> source]

QueryGlyphIds == {0, 1}

\* A table with an outline for glyph 0 only, and one with outlines for both
OutlineViews(source) ==
    {Some([outlines |-> [g \in QueryGlyphIds |->
                            IF g = 0 \/ both THEN Some(OutlineRect(source)) ELSE None]]) :
        both \in BOOLEAN}

\* A face with head, hhea and maxp bound and nothing else
PlainFace ==
    [InitialAssembly.face EXCEPT
        !.head = [units_per_em |-> 1000, index_to_location_format |-> 0],
        !.hhea = [number_of_metrics |-> 1, ascender |-> 800, descender |-> -200,
                  line_gap |-> 90]]

\* Faces with many axes, with and without avar
VariationFaces ==
    {WithCoordinates([PlainFace EXCEPT !.fvar = Some([axis_count |-> Len(axes), axes |-> axes]),
                                       !.avar = avar]) :
        axes \in AxisLists,
        avar \in {None, Some(AvarOf(2)), Some(AvarOf(MAX_VAR_COORDS))}}
    \cup {PlainFace, [PlainFace EXCEPT !.avar = Some(AvarOf(1))]}

\* Faces with every mix of hhea and OS/2 metrics, variable or not
MetricFaces ==
    {WithCoordinates([PlainFace EXCEPT !.hhea = hhea, !.os_2 = os_2,
                                       !.fvar = fvar, !.mvar = mvar]) :
        hhea \in HheaViews,
        os_2 \in {None} \cup {Some(v) : v \in Os2Views},
        fvar \in {None, Some([axis_count |-> 1, axes |-> AxisList(1, 1, 0)])},
        mvar \in {None} \cup {Some(t) : t \in MvarTables}}

\* Faces with every mix of outline tables
OutlineFaces ==
    {[PlainFace EXCEPT !.gvar = gvar, !.glyf = glyf, !.cff = cff, !.cff2 = cff2] :
        gvar \in {None} \cup OutlineViews(1), glyf \in {None} \cup OutlineViews(2),
        cff \in {None} \cup OutlineViews(3), cff2 \in {None} \cup OutlineViews(4)}

MaxSets == 2            \* successful set_variation calls in a run

AxisValues == {100, 650, 900}
QueryAxes == {T_wght, T_wdth, T_opsz, T_ital}

----------------------------------------------------------------------------
(* The queries as a state machine.  A call keeps `sets`, the number of      *)
(* set_variation calls that have returned some() on the face so far, and    *)
(* `last`, the value of the last such call for each axis tag.               *)

QueriesInit ==
    /\ face_tables \in VariationFaces \cup MetricFaces \cup OutlineFaces
    /\ call = [op |-> "none", sets |-> 0, last |-> [t \in QueryAxes |-> None]]

\* face.set_variation(axis, value); `before` is the coordinate vector before it
SetVariationCall(axis, value) ==
    LET r == SetVariation(face_tables, axis, value)
    IN  /\ call.sets < MaxSets
        /\ face_tables' = r.face
        /\ call' = [op |-> "set_variation", axis |-> axis, value |-> value,
                    before |-> face_tables.coordinates, result |-> r.result,
                    sets |-> IF r.result.some THEN call.sets + 1 ELSE call.sets,
                    last |-> IF r.result.some
                             THEN [call.last EXCEPT ![axis] = Some(value)]
                             ELSE call.last]

\* face.variation_coordinates()
VariationCoordinatesCall ==
    /\ call' = [op |-> "variation_coordinates", result |-> VariationCoordinates(face_tables),
                sets |-> call.sets,
                last |-> call.last]
    /\ UNCHANGED face_tables

\* face.ascender()
AscenderCall ==
    /\ call' = [op |-> "ascender", result |-> Ascender(face_tables), sets |-> call.sets,
                last |-> call.last]
    /\ UNCHANGED face_tables

\* face.descender()
DescenderCall ==
    /\ call' = [op |-> "descender", result |-> Descender(face_tables), sets |-> call.sets,
                last |-> call.last]
    /\ UNCHANGED face_tables

\* face.line_gap()
LineGapCall ==
    /\ call' = [op |-> "line_gap", result |-> LineGap(face_tables), sets |-> call.sets,
                last |-> call.last]
    /\ UNCHANGED face_tables

\* face.height(): one of the outcomes the build can produce
HeightCall ==
    /\ \E r \in Height(face_tables) :
          call' = [op |-> "height", result |-> r, sets |-> call.sets,
                last |-> call.last]
    /\ UNCHANGED face_tables

\* face.outline_glyph(glyph_id, builder)
OutlineGlyphCall(glyph_id) ==
    /\ call' = [op |-> "outline_glyph", glyph_id |-> glyph_id,
                result |-> OutlineGlyph(face_tables, glyph_id), sets |-> call.sets,
                last |-> call.last]
    /\ UNCHANGED face_tables

QueriesNext ==
    \/ \E axis \in QueryAxes, value \in AxisValues : SetVariationCall(axis, value)
    \/ VariationCoordinatesCall
    \/ AscenderCall
    \/ DescenderCall
    \/ LineGapCall
    \/ HeightCall
    \/ \E g \in QueryGlyphIds : OutlineGlyphCall(g)

----------------------------------------------------------------------------
(* BinarySearchTable::get pass by pass, on tables of up to MaxSearchLen      *)
(* entries in and out of order                                               *)

MaxSearchLen == 8       \* entries of a searched table

\* Glyph lists: ascending, descending, constant, and up and down
SearchGlyphs(n) ==
    {[k \in 1..n |-> 2 * k], [k \in 1..n |-> 2 * (n + 1 - k)], [k \in 1..n |-> 4],
     [k \in 1..n |-> IF k % 2 = 1 THEN 2 * k ELSE 2 * (n + 1 - k)],
     [k \in 1..n |-> IF k = n THEN NoGlyph ELSE 2 * k]}

\* Range lists: ascending and apart, nested, descending
SearchRanges(n) ==
    {[k \in 1..n |-> <<3 * k, 3 * k + 1>>], [k \in 1..n |-> <<1, 2 * k>>],
     [k \in 1..n |-> <<3 * (n + 1 - k), 3 * (n + 1 - k) + 1>>]}

SearchInputs ==
    {[kind |-> "lookup", number_of_glyphs |-> 1, extra_size |-> 0, usize_bits |-> 64,
      data |-> l] :
        l \in UNION {{SingleLookup(4, g) : g \in SearchGlyphs(n)}
                        \cup {SegmentLookup(2, 6, r) : r \in SearchRanges(n)} :
                     n \in 1..MaxSearchLen}}

SearchKeys == 0..(3 * MaxSearchLen + 2) \cup {NoGlyph}

SearchInit ==
    /\ subtable \in SearchInputs
    /\ aat = [state |-> "raw"]
    /\ query = NoQuery

\* get(key) is entered: min = 0, max = len - 1
GetBegin(key) ==
    /\ aat.state = "lookup"
    /\ aat.lookup.some
    /\ aat.lookup.v.format \in {"Format2", "Format4", "Format6"}
    /\ query = NoQuery
    /\ query' = [op |-> "get", key |-> key, min |-> 0, max |-> aat.lookup.v.bsearch.len - 1,
                 probes |-> <<>>, done |-> FALSE, result |-> None]
    /\ UNCHANGED <<subtable, aat>>

\* One pass of the loop; passes are counted up to the table's length
GetIterate ==
    /\ query.op = "get"
    /\ ~query.done
    /\ Len(query.probes) <= aat.lookup.v.bsearch.len
    /\ LET r == BinarySearchIterate(aat.lookup.v.bsearch, query.key, query.min, query.max)
       IN  query' = [query EXCEPT !.min = r.min, !.max = r.max, !.done = r.done,
                                  !.result = r.result,
                                  !.probes = IF r.probe.some THEN Append(@, r.probe.v) ELSE @]
    /\ UNCHANGED <<subtable, aat>>

SearchNext ==
    \/ ParseLookup
    \/ \E key \in SearchKeys : GetBegin(key)
    \/ GetIterate

----------------------------------------------------------------------------
(* Face::from_slice step by step: the container and the directory, then     *)
(* from_table_provider consuming the default provider item by item, then    *)
(* the return.  `call.phase` is where from_slice stands.                    *)

\* from_slice up to the call of from_table_provider: an error of the
\* container or the directory is returned, or the provider is built
OpenFont ==
    LET selected == SelectFace(font.data, font.index)
        table_records == Directory(font.data, font.index)
    IN  /\ call = NoCall
        /\ ~face.some
        /\ IF ~selected.ok
           THEN /\ face' = Some(selected)
                /\ call' = [op |-> "from_slice", phase |-> "returned"]
                /\ UNCHANGED provider
           ELSE IF ~table_records.some
           THEN /\ face' = Some(Err("MalformedFont"))
                /\ call' = [op |-> "from_slice", phase |-> "returned"]
                /\ UNCHANGED provider
           ELSE /\ provider' = [items |-> DefaultProviderItems(font.data, table_records.v),
                                pos |-> 1]
                /\ call' = [op |-> "from_slice", phase |-> "tables"]
                /\ UNCHANGED face
        /\ UNCHANGED <<font, assembly, outcome>>

\* from_table_provider has returned: its error is passed on by `?`, or the
\* face is made of the buffer, the directory and the tables
ReturnFace ==
    /\ call = [op |-> "from_slice", phase |-> "tables"]
    /\ outcome.some
    /\ face' = Some(IF outcome.v.ok
                    THEN Ok([table_records |-> Directory(font.data, font.index).v,
                             tables |-> outcome.v.v])
                    ELSE outcome.v)
    /\ call' = [op |-> "from_slice", phase |-> "returned"]
    /\ UNCHANGED <<font, provider, assembly, outcome>>

ConstructionNext ==
    \/ OpenFont
    \/ /\ call = [op |-> "from_slice", phase |-> "tables"]
       /\ TablesNext
       /\ UNCHANGED <<font, face, call>>
    \/ ReturnFace

----------------------------------------------------------------------------
(* The specifications: the AAT engine, the table pass, and from_slice, each
   with the other parts at rest *)

AatIdle ==
    /\ subtable = [kind |-> "none"]
    /\ aat = [state |-> "raw"]
    /\ query = NoQuery

TablesIdle ==
    /\ provider = [items |-> <<>>, pos |-> 1]
    /\ assembly = InitialAssembly
    /\ outcome = None

FaceIdle ==
    /\ font = [data |-> <<>>, index |-> 0, usize_bits |-> 64]
    /\ face = None

QueriesIdle ==
    /\ face_tables = [kind |-> "none"]
    /\ call = NoCall

SpecAatInit == AatInit /\ TablesIdle /\ FaceIdle /\ QueriesIdle
SpecAatNext == AatNext /\ UNCHANGED <<tableVars, faceVars, queryVars>>
SpecAat == SpecAatInit /\ [][SpecAatNext]_vars

SpecTablesInit == TablesInit /\ AatIdle /\ FaceIdle /\ QueriesIdle
SpecTablesNext == TablesNext /\ UNCHANGED <<aatVars, faceVars, queryVars>>
SpecTables == SpecTablesInit /\ [][SpecTablesNext]_vars

SpecFaceInit == FaceInit /\ AatIdle /\ TablesIdle /\ QueriesIdle
SpecFaceNext == FaceNext /\ UNCHANGED <<aatVars, tableVars, face_tables>>
SpecFace == SpecFaceInit /\ [][SpecFaceNext]_vars

SpecConstructionInit == FaceInit /\ AatIdle /\ TablesIdle /\ QueriesIdle
SpecConstructionNext == ConstructionNext /\ UNCHANGED <<aatVars, face_tables>>
SpecConstruction == SpecConstructionInit /\ [][SpecConstructionNext]_vars

SpecQueriesInit == QueriesInit /\ AatIdle /\ TablesIdle /\ FaceIdle
SpecQueriesNext == QueriesNext /\ UNCHANGED <<aatVars, tableVars, faceVars>>
SpecQueries == SpecQueriesInit /\ [][SpecQueriesNext]_vars

SpecSearchInit == SearchInit /\ TablesIdle /\ FaceIdle /\ QueriesIdle
SpecSearchNext == SearchNext /\ UNCHANGED <<tableVars, faceVars, queryVars>>
SpecSearch == SpecSearchInit /\ [][SpecSearchNext]_vars

SpecTagInit == TagInit /\ face_tables = [kind |-> "none"] /\ AatIdle /\ TablesIdle /\ FaceIdle
SpecTagNext == TagNext /\ UNCHANGED <<aatVars, tableVars, faceVars>>
SpecTag == SpecTagInit /\ [][SpecTagNext]_vars

----------------------------------------------------------------------------
(* Claims about Face::from_slice *)

Result == face.v
Failed(e) == face.some /\ ~Result.ok /\ Result.e = e

\* The big-endian bytes of the four magics
RecognisedMagics ==
    {<<0, 1, 0, 0>>, <<116, 114, 117, 101>>, <<79, 84, 84, 79>>, <<116, 116, 99, 102>>}

StartsWith(data, at, b) ==
    /\ at + Len(b) <= Len(data)
    /\ \A k \in 1..Len(b) : data[at + k] = b[k]

FirstMagicRecognised == \E m \in RecognisedMagics : StartsWith(font.data, 0, m)
IsCollection == StartsWith(font.data, 0, <<116, 116, 99, 102>>)

\* C1: a buffer whose first four bytes are not one of the four magics, a
\* buffer shorter than four bytes included, is refused with UnknownMagic
\* whatever the face index.
C1_UnknownMagic ==
    (face.some /\ ~FirstMagicRecognised) => Failed("UnknownMagic")

C1_Witness ==
    /\ Failed("UnknownMagic")
    /\ Len(font.data) \in 1..3
    /\ font.index > 0

\* The big-endian number in bytes at+1..at+n of the buffer
RECURSIVE BigEndian(_, _, _)
BigEndian(data, at, n) ==
    IF n = 0 THEN 0 ELSE BigEndian(data, at, n - 1) * 256 + data[at + n]

DeclaredFaces == BigEndian(font.data, 8, 4)
OffsetsEnd == 12 + 4 * DeclaredFaces
SelectedOffset == BigEndian(font.data, 12 + 4 * font.index, 4)

\* Where the face's table count lies: behind the font's magic, or behind the
\* selected face's magic in a collection
CountAt == IF IsCollection THEN SelectedOffset + 4 ELSE 4

\* The read of the header walk at which the buffer ends, "none" when the walk
\* stops for another reason or reaches the end of the table records
RunsOutAt ==
    IF ~FirstMagicRecognised THEN "none"
    ELSE IF IsCollection /\ Len(font.data) < 12 THEN "face_count"
    ELSE IF IsCollection /\ Len(font.data) < OffsetsEnd THEN "offset_array"
    ELSE IF IsCollection /\ font.index >= DeclaredFaces THEN "none"
    ELSE IF IsCollection /\ SelectedOffset < OffsetsEnd THEN "none"
    ELSE IF IsCollection /\ SelectedOffset > Len(font.data) THEN "seek"
    ELSE IF IsCollection /\ SelectedOffset + 4 > Len(font.data) THEN "face_magic"
    ELSE IF IsCollection /\ ~(\E m \in RecognisedMagics \ {<<116, 116, 99, 102>>} :
                                StartsWith(font.data, SelectedOffset, m)) THEN "none"
    ELSE IF CountAt + 2 > Len(font.data) THEN "table_count"
    ELSE IF CountAt + 8 + 16 * BigEndian(font.data, CountAt, 2) > Len(font.data) THEN "table_records"
    ELSE "none"

\* C2 as stated: running out of bytes at any read of the header walk behind a
\* recognised first magic gives MalformedFont, the read of the selected face's
\* own magic included.
C2_AnyShortReadIsMalformed ==
    (face.some /\ RunsOutAt # "none") => Failed("MalformedFont")

\* C2: running out of bytes behind a recognised first magic gives
\* MalformedFont at the collection's face count, its offset array, the seek
\* to the selected face, the table count and the table records; at the read
\* of the selected face's own magic it gives UnknownMagic.
C2_ShortReads ==
    face.some =>
        /\ RunsOutAt \in {"face_count", "offset_array", "seek", "table_count", "table_records"}
              => Failed("MalformedFont")
        /\ RunsOutAt = "face_magic" => Failed("UnknownMagic")

C2_Witness ==
    /\ face.some
    /\ RunsOutAt = "face_magic"
    /\ font.plan.kind = "collection"
    /\ Len(font.data) > SelectedOffset
    /\ Failed("UnknownMagic")

\* C4: in a collection that declares N faces, with its offset array complete
\* and its faces well formed, every index below N gives a face and every
\* index from N on FaceIndexOutOfBounds; an index whose offset points at
\* another collection magic gives UnknownMagic.
C4_CollectionLookup ==
    (face.some /\ font.plan.kind = "collection" /\ font.whole
        /\ font.plan.declared = Len(font.plan.faces)) =>
        /\ font.index >= font.plan.declared => Failed("FaceIndexOutOfBounds")
        /\ font.index < font.plan.declared =>
              LET kind == font.plan.faces[font.index + 1]
              IN  /\ kind \in {"truetype", "opentype"} =>
                        /\ Result.ok
                        /\ Result.v.table_records.count = Len(GoodTables)
                  /\ kind = "collection" => Failed("UnknownMagic")

C4_Witness ==
    /\ face.some /\ font.plan.kind = "collection" /\ font.whole
    /\ font.plan.faces = <<"collection", "opentype">>
    /\ font.index = 1
    /\ Result.ok
    /\ Result.v.tables.head.units_per_em = 1000

----------------------------------------------------------------------------
(* Claims about face assembly, checked under SpecTables *)

\* The provider yields only Ok items
OnlyOkItems == \A i \in 1..Len(provider.items) : provider.items[i].ok

\* The slice the provider yields for a tag: that of its last item with the
\* tag, none when it yields no such item
LastData(tagBytes) ==
    LET at == {i \in 1..Len(provider.items) :
                  provider.items[i].ok /\ TagToBytes(provider.items[i].tag) = tagBytes}
    IN  IF at = {} THEN None
        ELSE provider.items[CHOOSE i \in at : \A j \in at : j <= i].data

\* The mandatory tables as the provider yields them
YieldedHead == AndThen(LastData(B_head), HeadParse)
YieldedHhea == AndThen(LastData(B_hhea), HheaParse)
YieldedMaxp == AndThen(LastData(B_maxp), MaxpParse)
HeadValid == YieldedHead.some /\ YieldedHead.v.units_per_em # 0
HheaValid == YieldedHhea.some
MaxpValid == YieldedMaxp.some

\* C3: with only Ok items, from_table_provider returns NoHeadTable when head
\* is missing, malformed or has units_per_em = 0, NoHheaTable when head is
\* valid and hhea is missing or malformed, NoMaxpTable when head and hhea are
\* valid and maxp is missing or malformed, and Ok only when all three are valid.
C3_MandatoryTables ==
    (outcome.some /\ OnlyOkItems) =>
        /\ ~HeadValid => outcome.v = Err("NoHeadTable")
        /\ (HeadValid /\ ~HheaValid) => outcome.v = Err("NoHheaTable")
        /\ (HeadValid /\ HheaValid /\ ~MaxpValid) => outcome.v = Err("NoMaxpTable")
        /\ outcome.v.ok <=> (HeadValid /\ HheaValid /\ MaxpValid)

\* C3 witness: head is valid, hhea is cut short and maxp is missing as well.
C3_Witness ==
    /\ outcome.some /\ OnlyOkItems
    /\ HeadValid
    /\ LastData(B_hhea) = Some(HheaShort)
    /\ ~MaxpValid
    /\ outcome.v = Err("NoHheaTable")

\* The optional tables: tag and the name has_table knows the table by
OptionalTables ==
    {<<B_CBDT, "ColorBitmapData">>, <<B_CBLC, "ColorBitmapLocation">>,
     <<B_CFF, "CompactFontFormat">>, <<B_CFF2, "CompactFontFormat2">>,
     <<B_GDEF, "GlyphDefinition">>, <<B_GPOS, "GlyphPositioningTable">>,
     <<B_GSUB, "GlyphSubstitutionTable">>, <<B_HVAR, "HorizontalMetricsVariations">>,
     <<B_MVAR, "MetricsVariations">>, <<B_OS2, "WindowsMetrics">>,
     <<B_SVG, "ScalableVectorGraphics">>, <<B_VORG, "VerticalOrigin">>,
     <<B_VVAR, "VerticalMetricsVariations">>, <<B_avar, "AxisVariations">>,
     <<B_cmap, "CharacterToGlyphIndexMapping">>, <<B_fvar, "FontVariations">>,
     <<B_glyf, "GlyphData">>, <<B_gvar, "GlyphVariations">>,
     <<B_hmtx, "HorizontalMetrics">>, <<B_kern, "Kerning">>,
     <<B_loca, "IndexToLocation">>, <<B_name, "Naming">>, <<B_post, "PostScript">>,
     <<B_sbix, "StandardBitmapGraphics">>, <<B_vhea, "VerticalHeader">>,
     <<B_vmtx, "VerticalMetrics">>}

\* The parser of an optional table rejects the slice d (the mandatory tables
\* being valid): CBDT, CBLC and glyf have no parser that can fail
Rejected(tagBytes, d) ==
    CASE tagBytes \in {B_CBDT, B_CBLC, B_glyf} -> FALSE
      [] tagBytes = B_fvar -> ~FvarParse(d).some
      [] tagBytes = B_vhea -> ~HheaParse(d).some
      [] tagBytes = B_hmtx ->
            ~HmtxParse(d, YieldedHhea.v.number_of_metrics,
                       YieldedMaxp.v.number_of_glyphs).some
      [] tagBytes = B_vmtx ->
            LET vhea == AndThen(LastData(B_vhea), HheaParse)
            IN  vhea.some /\ ~HmtxParse(d, vhea.v.number_of_metrics,
                                        YieldedMaxp.v.number_of_glyphs).some
      [] tagBytes = B_loca ->
            ~LocaParse(d, YieldedMaxp.v.number_of_glyphs,
                       YieldedHead.v.index_to_location_format).some
      [] tagBytes = B_sbix -> ~SbixParse(YieldedMaxp.v.number_of_glyphs, d).some
      [] OTHER -> ~TableParse(d).some

\* An optional table whose slice is missing or rejected by its parser
Unusable(tagBytes) ==
    \/ ~LastData(tagBytes).some
    \/ Rejected(tagBytes, LastData(tagBytes).v)

\* C5: with head, hhea and maxp valid and only Ok items, from_table_provider
\* returns Ok whatever the other tables are, and every optional table whose
\* slice is missing or rejected by its parser is unbound: has_table is false.
C5_OptionalTablesNeverFail ==
    (outcome.some /\ OnlyOkItems /\ HeadValid /\ HheaValid /\ MaxpValid) =>
        /\ outcome.v.ok
        /\ \A t \in OptionalTables :
              Unusable(t[1]) => ~HasTable(outcome.v.v, t[2])

\* C5 witness: a face is built from a stream with a loca the parser rejects
\* and a glyf slice, and has neither table.
C5_Witness ==
    /\ outcome.some /\ OnlyOkItems
    /\ outcome.v.ok
    /\ LastData(B_loca) = SliceBad
    /\ LastData(B_glyf) = SliceGood
    /\ ~HasTable(outcome.v.v, "IndexToLocation")
    /\ ~HasTable(outcome.v.v, "GlyphData")

----------------------------------------------------------------------------
(* Claims about the AAT engine, checked under SpecAat *)

\* The table a class or entry query was made on
QueriedTable == aat.table.v

\* C6: class(0xFFFF) is Some(DELETED_GLYPH) whatever the lookup holds, and
\* for every other glyph class() is exactly the lookup's value, none included.
C6_DeletedGlyphClass ==
    query.op = "class" =>
        IF query.glyph = NoGlyph
        THEN query.result = Some(2)
        ELSE query.result = LookupValue(QueriedTable.lookup, query.glyph)

\* C6 witness: class(0xFFFF) asked of a table whose lookup maps 0xFFFF to
\* a value other than 2.
C6_Witness ==
    /\ query.op = "class"
    /\ query.glyph = NoGlyph
    /\ LookupValue(QueriedTable.lookup, NoGlyph).some
    /\ LookupValue(QueriedTable.lookup, NoGlyph).v # 2
    /\ query.result = Some(2)

\* C7: for every class c >= number_of_classes (0 and 1 classes included),
\* entry(s, c) is what entry(s, 1) is, an entry or none.
C7_OutOfBoundsCoercion ==
    (query.op = "entry" /\ query.class >= QueriedTable.number_of_classes) =>
        query.result = Entry(QueriedTable, query.state, 1)

\* C7 witness: an entry found for a class at or above number_of_classes,
\* other than class 1, in a state other than 0.
C7_Witness ==
    /\ query.op = "entry"
    /\ query.class >= QueriedTable.number_of_classes
    /\ query.class # 1
    /\ query.state > 0
    /\ QueriedTable.number_of_classes > 1
    /\ query.result.some

\* The subtable from the stream's position at the call of parse, and the
\* big-endian u32 at a byte offset of it
Subtable == SubSeq(subtable.data, subtable.start + 1, Len(subtable.data))
HeaderField(at) == BigEndian(Subtable, at, 4)
From(data, at) == SubSeq(data, at + 1, Len(data))

\* C25: ExtendedStateTable::parse succeeds exactly when the 16 header bytes
\* after the stream's position are readable, each of the three offsets is at
\* most the length of the subtable from that position, and the lookup at the
\* lookup offset parses; then the state array and the entry table are the
\* whole rest of the subtable from their offsets, measured from that
\* position, and the stream has advanced by exactly 16 bytes.
C25_StateTableParse ==
    aat.state = "state_table" =>
        /\ aat.table.some <=>
              /\ Len(Subtable) >= 16
              /\ HeaderField(4) <= Len(Subtable)
              /\ HeaderField(8) <= Len(Subtable)
              /\ HeaderField(12) <= Len(Subtable)
              /\ LookupParse(subtable.number_of_glyphs,
                             From(Subtable, HeaderField(4))).some
        /\ aat.table.some =>
              /\ aat.table.v.number_of_classes = HeaderField(0)
              /\ aat.table.v.lookup
                    = LookupParse(subtable.number_of_glyphs,
                                  From(Subtable, HeaderField(4))).v
              /\ aat.table.v.state_array = From(Subtable, HeaderField(8))
              /\ aat.table.v.entry_table = From(Subtable, HeaderField(12))
              /\ aat.offset = subtable.start + 16

\* C25 witness: a table parsed from a stream already past three bytes, the
\* entry table starting inside the header and so holding the lookup and the
\* state array, the state array empty at the very end of the subtable.
C25_Witness ==
    /\ aat.state = "state_table"
    /\ subtable.start = 3
    /\ aat.table.some
    /\ HeaderField(12) = 0
    /\ HeaderField(8) = Len(Subtable)
    /\ aat.table.v.state_array = <<>>
    /\ aat.table.v.entry_table = Subtable
    /\ aat.offset = 19

\* The searchable segments of a parsed binary-search table, in table order
Searchable(tbl) ==
    [i \in 1..tbl.len |-> ValueParse(tbl.kind, ArrayGet(tbl.values, i - 1).v)]

\* All the values of a parsed binary-search table, a termination value included
Stored(tbl) ==
    [i \in 1..tbl.values.count |-> ValueParse(tbl.kind, ArrayGet(tbl.values, i - 1).v)]

\* Segments that are proper ranges, pairwise disjoint and sorted by range
DisjointSorted(segs) ==
    /\ \A i \in 1..Len(segs) : segs[i].first_glyph <= segs[i].last_glyph
    /\ \A i \in 1..Len(segs), j \in 1..Len(segs) :
          i < j => segs[i].last_glyph < segs[j].first_glyph

\* C8: on a format-2 lookup whose segments (the termination value apart) are
\* disjoint and sorted, value(g) is the value of the segment covering g, and
\* none when no segment covers g: the result of a linear scan.
C8_Format2Value ==
    (/\ query.op = "value"
     /\ aat.lookup.v.format = "Format2"
     /\ DisjointSorted(Searchable(aat.lookup.v.bsearch))) =>
        LET segs == Searchable(aat.lookup.v.bsearch)
            covering == {i \in 1..Len(segs) :
                            /\ segs[i].first_glyph <= query.glyph
                            /\ query.glyph <= segs[i].last_glyph}
        IN  /\ covering = {} => query.result = None
            /\ \A i \in covering : query.result = Some(segs[i].value)
            /\ \A i \in 1..Len(segs) :
                  query.result = Some(segs[i].value) => i \in covering

\* C8 witness: three disjoint sorted segments, the glyph in the last one.
C8_Witness ==
    /\ query.op = "value"
    /\ aat.lookup.v.format = "Format2"
    /\ LET segs == Searchable(aat.lookup.v.bsearch)
       IN  /\ Len(segs) = 3
           /\ DisjointSorted(segs)
           /\ segs[3].first_glyph < segs[3].last_glyph
           /\ query.glyph = segs[3].last_glyph
           /\ query.result = Some(segs[3].value)

\* The segments of a list that cover a glyph
Covering(segs, g) ==
    {i \in 1..Len(segs) : segs[i].first_glyph <= g /\ g <= segs[i].last_glyph}

\* The big-endian u16 of the bytes handed to Lookup::parse at the offset a
\* format-4 segment gives a glyph, none when the two bytes are not inside
ValueOfSegment(seg, g) ==
    LET at == seg.value + 2 * (g - seg.first_glyph)
    IN  IF at + 2 <= Len(subtable.data)
        THEN Some(subtable.data[at + 1] * 256 + subtable.data[at + 2])
        ELSE None

\* C23: on a format-4 lookup value(g) is the big-endian u16 at byte offset
\* segment.value + 2 * (g - first_glyph) of the lookup data, format code
\* included, for the segment covering g; it is none when no segment covers g
\* and when the two bytes are not inside the data. The segment is the one
\* the search finds, which on disjoint sorted segments is the covering one.
C23_Format4Value ==
    (query.op = "value" /\ aat.lookup.v.format = "Format4") =>
        LET segs == Searchable(aat.lookup.v.bsearch)
            covering == Covering(segs, query.glyph)
        IN  /\ covering = {} => query.result = None
            /\ query.result.some =>
                  \E i \in covering : query.result = ValueOfSegment(segs[i], query.glyph)
            /\ DisjointSorted(segs) =>
                  \A i \in covering : query.result = ValueOfSegment(segs[i], query.glyph)

\* C23 witness: three disjoint sorted segments, a glyph after the first one
\* of its segment, and the value read inside the lookup data.
C23_Witness ==
    /\ query.op = "value"
    /\ aat.lookup.v.format = "Format4"
    /\ LET segs == Searchable(aat.lookup.v.bsearch)
       IN  /\ Len(segs) = 3
           /\ DisjointSorted(segs)
           /\ \E i \in Covering(segs, query.glyph) :
                 /\ query.glyph > segs[i].first_glyph
                 /\ query.result.some
                 /\ query.result = ValueOfSegment(segs[i], query.glyph)

\* The bytes handed to Lookup::parse start with the format code of a
\* binary-search lookup
IsBinarySearchLookup ==
    /\ subtable.kind = "lookup"
    /\ Len(subtable.data) >= 2
    /\ subtable.data[1] * 256 + subtable.data[2] \in {2, 4, 6}

\* What such bytes declare: the format, the record size of the format, the
\* stride, the count, and the k-th record (k from 1) after the 12 bytes of
\* format code and search header
DeclaredFormat == subtable.data[1] * 256 + subtable.data[2]
RecordSize == IF DeclaredFormat = 6 THEN 4 ELSE 6
RecordKind == IF DeclaredFormat = 6 THEN "single" ELSE "segment"
DeclaredStride == subtable.data[3] * 256 + subtable.data[4]
DeclaredCount == subtable.data[5] * 256 + subtable.data[6]
DeclaredRecord(k) ==
    SubSeq(subtable.data, 12 + (k - 1) * RecordSize + 1, 12 + k * RecordSize)
SegmentsFit ==
    /\ Len(subtable.data) >= 6
    /\ 12 + DeclaredCount * RecordSize <= Len(subtable.data)
LastIsSentinel ==
    LET b == DeclaredRecord(DeclaredCount)
    IN  IF DeclaredFormat = 6 THEN b[1] = 255 /\ b[2] = 255
        ELSE b[1] = 255 /\ b[2] = 255 /\ b[3] = 255 /\ b[4] = 255

\* The value a record gives a glyph it holds: the stored value, or for
\* format 4 the u16 the stored offset leads to
RecordValue(k, g) ==
    LET v == ValueParse(RecordKind, DeclaredRecord(k))
    IN  IF DeclaredFormat = 4 THEN ValueOfSegment(v, g) ELSE Some(v.value)

\* C24: parsing a format 2, 4 or 6 lookup fails when the stride is not the
\* record size (6, 6, 4), when the count is 0, when the declared records do
\* not fit in the data and when the only record is the sentinel, and
\* succeeds otherwise; the searchable length is then count - 1 if the last
\* record is the sentinel and count if not, and value() never returns a
\* sentinel in last position: what it returns comes from a record before it.
C24_BinarySearchParse ==
    (aat.state = "lookup" /\ IsBinarySearchLookup) =>
        /\ aat.lookup.some <=>
              /\ SegmentsFit
              /\ DeclaredStride = RecordSize
              /\ DeclaredCount # 0
              /\ ~(DeclaredCount = 1 /\ LastIsSentinel)
        /\ aat.lookup.some =>
              aat.lookup.v.bsearch.len
                  = IF LastIsSentinel THEN DeclaredCount - 1 ELSE DeclaredCount
        /\ (query.op = "value" /\ LastIsSentinel /\ query.result.some) =>
              \E k \in 1..(DeclaredCount - 1) :
                  /\ Contains(RecordKind, ValueParse(RecordKind, DeclaredRecord(k)),
                              query.glyph) = "Equal"
                  /\ query.result = RecordValue(k, query.glyph)

\* C24 witness: a lookup of three records, the last one the sentinel, parsed
\* with searchable length 2, and value(0xFFFF) asked of it gives none.
C24_Witness ==
    /\ aat.state = "lookup"
    /\ IsBinarySearchLookup
    /\ aat.lookup.some
    /\ DeclaredCount = 3
    /\ LastIsSentinel
    /\ aat.lookup.v.bsearch.len = 2
    /\ query.op = "value"
    /\ query.glyph = NoGlyph
    /\ query.result = None

\* C24 second witness: a lookup whose only record is the sentinel is refused.
C24_OnlySentinel ==
    /\ aat.state = "lookup"
    /\ IsBinarySearchLookup
    /\ SegmentsFit
    /\ DeclaredStride = RecordSize
    /\ DeclaredCount = 1
    /\ LastIsSentinel
    /\ ~aat.lookup.some

\* Singles strictly increasing by glyph, the last one the sentinel (0xFFFF, 0xFFFF)
SortedWithSentinel(singles) ==
    /\ Len(singles) >= 1
    /\ singles[Len(singles)] = [glyph |-> NoGlyph, value |-> NoGlyph]
    /\ \A i \in 1..Len(singles) - 1 : singles[i].glyph < singles[i + 1].glyph

\* C9: on a format-6 lookup whose singles are strictly increasing and end with
\* the sentinel, value(g) = v exactly when (g, v) is a single other than the
\* sentinel; value(0xFFFF) is none.
C9_Format6Value ==
    (/\ query.op = "value"
     /\ aat.lookup.v.format = "Format6"
     /\ SortedWithSentinel(Stored(aat.lookup.v.bsearch))) =>
        LET singles == Stored(aat.lookup.v.bsearch)
            hits == {i \in 1..Len(singles) - 1 : singles[i].glyph = query.glyph}
        IN  /\ hits = {} => query.result = None
            /\ \A i \in hits : query.result = Some(singles[i].value)
            /\ query.glyph = NoGlyph => query.result = None

\* C9 witness: three singles and the sentinel, and value(0xFFFF) is none.
C9_Witness ==
    /\ query.op = "value"
    /\ aat.lookup.v.format = "Format6"
    /\ SortedWithSentinel(Stored(aat.lookup.v.bsearch))
    /\ Len(Stored(aat.lookup.v.bsearch)) = 4
    /\ query.glyph = NoGlyph
    /\ query.result = None

\* The bytes handed to Lookup::parse are a format-10 table with this value_size
IsFormat10(data) == ReadU16At(data, 0) = Some(10) /\ ReadU16At(data, 2).some
Format10ValueSize(data) == ReadU16At(data, 2).v

\* C10 as stated: Lookup::parse of a format-10 table fails for every
\* value_size other than 1, 2 and 4, and succeeds only for 1, 2 or 4.
C10_ParseRejectsOtherSizes ==
    (aat.state = "lookup" /\ IsFormat10(subtable.data)) =>
        (aat.lookup.some => Format10ValueSize(subtable.data) \in {1, 2, 4})

\* C10 as amended: Lookup::parse of a format-10 table succeeds for every
\* value_size once the format code and the three header fields (8 bytes) are
\* readable; for a value_size other than 1, 2 and 4 (8 included) it is
\* value() that returns none, for every glyph.
C10_ValueRejectsOtherSizes ==
    /\ (aat.state = "lookup" /\ IsFormat10(subtable.data)) =>
          (aat.lookup.some <=> Len(subtable.data) >= 8)
    /\ (/\ query.op = "value"
        /\ aat.lookup.v.format = "Format10"
        /\ aat.lookup.v.value_size \notin {1, 2, 4}) => query.result = None

\* C10 witness: a format-10 table with value_size 8 parsed, and a value asked
\* of it for a glyph inside its glyph range.
C10_Witness ==
    /\ query.op = "value"
    /\ aat.lookup.v.format = "Format10"
    /\ aat.lookup.v.value_size = 8
    /\ query.glyph >= aat.lookup.v.first_glyph
    /\ query.glyph < aat.lookup.v.first_glyph + aat.lookup.v.glyph_count
    /\ query.result = None

----------------------------------------------------------------------------
(* Claims about Tag, checked under SpecTag *)

\* C13 as stated: for every input of length k < 4, k = 0 included,
\* from_bytes_lossy gives the input bytes followed by 4 - k spaces.
C13_AlwaysPadsWithSpaces ==
    (call.op = "from_bytes_lossy" /\ Len(call.bytes) < 4) =>
        TagToBytes(call.result)
            = call.bytes \o [k \in 1..(4 - Len(call.bytes)) |-> 32]

\* C13: for an input of length k = 1, 2 or 3, from_bytes_lossy gives the tag
\* whose first k bytes are the input and whose other bytes are 0x20; for the
\* empty input it gives the tag 0, whose four bytes are 0.
C13_LossyPadding ==
    (call.op = "from_bytes_lossy" /\ Len(call.bytes) < 4) =>
        IF call.bytes = <<>>
        THEN call.result = 0 /\ TagToBytes(call.result) = <<0, 0, 0, 0>>
        ELSE TagToBytes(call.result)
                = call.bytes \o [k \in 1..(4 - Len(call.bytes)) |-> 32]

C13_Witness ==
    /\ call.op = "from_bytes_lossy"
    /\ call.bytes = <<>>
    /\ call.result = 0

\* Byte-lexicographic comparison of two byte strings of the same length
RECURSIVE LexCmp(_, _)
LexCmp(x, y) ==
    IF x = <<>> THEN "Equal"
    ELSE IF Head(x) < Head(y) THEN "Less"
    ELSE IF Head(x) > Head(y) THEN "Greater"
    ELSE LexCmp(Tail(x), Tail(y))

\* C14: from_bytes(b).to_bytes() is b for every four bytes b,
\* from_bytes(Tag(t).to_bytes()) is Tag(t) for every t, and the order of two
\* tags is the byte-lexicographic order of their to_bytes().
C14_TagRoundTrip ==
    /\ call.op = "from_bytes" => call.result = call.bytes
    /\ call.op = "to_bytes" => call.result = call.tag
    /\ call.op = "cmp" => call.result = LexCmp(TagToBytes(call.a), TagToBytes(call.b))

C14_Witness ==
    /\ call.op = "cmp"
    /\ TagToBytes(call.a) = <<0, 255, 32, 0>>
    /\ TagToBytes(call.b) = <<127, 0, 32, 255>>
    /\ call.result = "Less"

----------------------------------------------------------------------------
(* Claims about the queries, checked under SpecQueries *)

\* The place (from 1) of the first axis of the face that carries the tag, 0 when none does
FirstPlace(f, tag) ==
    LET axes == IF f.fvar.some THEN f.fvar.v.axes ELSE <<>>
        places == {k \in 1..Len(axes) : axes[k].tag = tag}
    IN  IF places = {} THEN 0
        ELSE CHOOSE k \in places : \A j \in places : k <= j

\* The length the coordinate vector of the face is to have
AxesCapped(f) == IF f.fvar.some THEN Min(Len(f.fvar.v.axes), 32) ELSE 0

\* C11: set_variation returns none exactly when the face has no fvar, no axis
\* carries the tag, or the first axis carrying it has index >= 32; and when it
\* returns none the coordinate vector, its 32 slots and its length, is as it
\* was before the call.
C11_RefusedSetVariation ==
    call.op = "set_variation" =>
        LET first == FirstPlace(face_tables, call.axis)
            refused == \/ ~face_tables.fvar.some
                       \/ first = 0
                       \/ first - 1 >= 32
        IN  /\ call.result = None <=> refused
            /\ call.result = None => face_tables.coordinates = call.before

\* C11 witness: a call refused for an axis of index 32 on a face whose
\* coordinates an earlier call has set.
C11_Witness ==
    /\ call.op = "set_variation"
    /\ call.result = None
    /\ FirstPlace(face_tables, call.axis) = 33
    /\ call.sets > 0
    /\ \E i \in 1..32 : face_tables.coordinates.data[i] # 0
    /\ face_tables.coordinates = call.before

\* C12: in every state the coordinate vector has length min(axes, 32), 0
\* without fvar, which is the length of variation_coordinates(); a call of
\* set_variation changes slots below that length only and writes the slot of
\* an axis below that length; every slot is 0 until set_variation has
\* returned some().
C12_CoordinateVector ==
    LET n == AxesCapped(face_tables)
        data == face_tables.coordinates.data
    IN  /\ face_tables.coordinates.len = n
        /\ Len(VariationCoordinates(face_tables)) = n
        /\ call.op = "variation_coordinates" => Len(call.result) = n
        /\ call.sets = 0 => \A i \in 1..32 : data[i] = 0
        /\ call.op = "set_variation" =>
              /\ call.before.len = n
              /\ \A i \in 1..32 : data[i] # call.before.data[i] => i <= n
              /\ call.result.some => FirstPlace(face_tables, call.axis) <= n

\* C12 witness: 34 axes, a vector of length 32 whose last slot has been set.
C12_Witness ==
    /\ call.op = "variation_coordinates"
    /\ face_tables.fvar.some
    /\ Len(face_tables.fvar.v.axes) = 34
    /\ Len(call.result) = 32
    /\ call.result[32] # 0
    /\ call.sets = 2

\* What each source of outlines gives for a glyph, in the order they are asked:
\* none when the source is not bound or fails for the glyph
SourceResults(f, glyph_id) ==
    <<IF f.gvar.some /\ f.glyf.some THEN f.gvar.v.outlines[glyph_id] ELSE None,
      IF f.glyf.some THEN f.glyf.v.outlines[glyph_id] ELSE None,
      IF f.cff.some THEN f.cff.v.outlines[glyph_id] ELSE None,
      IF f.cff2.some THEN f.cff2.v.outlines[glyph_id] ELSE None>>

\* C15 as stated: outline_glyph returns the result of the first source, in
\* the order gvar+glyf, glyf, CFF, CFF2, that succeeds for the glyph, and
\* none only when every source is absent or fails.
C15_FirstSuccessWins ==
    call.op = "outline_glyph" =>
        LET r == SourceResults(face_tables, call.glyph_id)
            ok == {k \in 1..4 : r[k].some}
        IN  IF ok = {} THEN call.result = None
            ELSE call.result = r[CHOOSE k \in ok : \A j \in ok : k <= j]

\* C15: outline_glyph asks one source only, the first that is bound in the
\* order gvar, glyf, CFF, CFF2, and returns what that source gives, none
\* included; gvar bound without glyf gives none; no source bound gives none.
\* With glyf and CFF both bound (and no gvar) the answer is glyf's.
C15_FirstBoundSourceDecides ==
    call.op = "outline_glyph" =>
        LET f == face_tables
            g == call.glyph_id
        IN  /\ f.gvar.some /\ f.glyf.some => call.result = f.gvar.v.outlines[g]
            /\ f.gvar.some /\ ~f.glyf.some => call.result = None
            /\ ~f.gvar.some /\ f.glyf.some => call.result = f.glyf.v.outlines[g]
            /\ ~f.gvar.some /\ ~f.glyf.some /\ f.cff.some => call.result = f.cff.v.outlines[g]
            /\ ~f.gvar.some /\ ~f.glyf.some /\ ~f.cff.some /\ f.cff2.some
                    => call.result = f.cff2.v.outlines[g]
            /\ ~f.gvar.some /\ ~f.glyf.some /\ ~f.cff.some /\ ~f.cff2.some
                    => call.result = None

\* C15 witness: glyf is bound and has no outline for the glyph, CFF is bound
\* and has one, and the call returns none.
C15_Witness ==
    /\ call.op = "outline_glyph"
    /\ ~face_tables.gvar.some
    /\ face_tables.glyf.some /\ ~face_tables.glyf.v.outlines[call.glyph_id].some
    /\ face_tables.cff.some /\ face_tables.cff.v.outlines[call.glyph_id].some
    /\ call.result = None

----------------------------------------------------------------------------
(* Claims about the slices of the tables, checked under SpecFace *)

\* Where the directory of the selected face starts in the buffer: behind the
\* magic, the table count and the three search hints
DirectoryStart ==
    IF BigEndian(font.data, 0, 4) = MAGIC_COLLECTION
    THEN BigEndian(font.data, 12 + 4 * font.index, 4) + 12
    ELSE 12

\* Record i (from 0) of the directory, read off the buffer
RecordTag(i) == BigEndian(font.data, DirectoryStart + 16 * i, 4)
RecordOffset(i) == BigEndian(font.data, DirectoryStart + 16 * i + 8, 4)
RecordLength(i) == BigEndian(font.data, DirectoryStart + 16 * i + 12, 4)
RecordCount == BigEndian(font.data, DirectoryStart - 8, 2)

\* Offset and length of record i are both below 2^16
RecordIsNear(i) ==
    /\ BigEndian(font.data, DirectoryStart + 16 * i + 8, 2) = 0
    /\ BigEndian(font.data, DirectoryStart + 16 * i + 12, 2) = 0

\* The bytes B[offset .. offset + length] of record i when they lie inside
\* the buffer, none otherwise
RecordSlice(i) ==
    IF RecordIsNear(i) /\ RecordOffset(i) + RecordLength(i) <= Len(font.data)
    THEN Some([k \in 1..RecordLength(i) |-> font.data[RecordOffset(i) + k]])
    ELSE None

\* C16: an item the default provider yields as a table carries the
\* record's tag and exactly B[offset .. offset+length], or none when that
\* range is not inside B; table_data returns, if anything, exactly that
\* slice of a record carrying the tag, returns none when no record carries
\* the tag, and in a directory in strict tag order returns the slice (or
\* none) of the one record carrying the tag.
C16_ExactSlices ==
    /\ (call.op = "provider_next" /\ call.result.ok) =>
          /\ call.result.tag = RecordTag(call.record)
          /\ call.result.data = RecordSlice(call.record)
    /\ call.op = "table_data" =>
          LET with == {i \in 0..(RecordCount - 1) : RecordTag(i) = call.tag}
              sorted == \A i \in 1..(RecordCount - 1) : RecordTag(i - 1) < RecordTag(i)
          IN  /\ call.result.some =>
                    \E i \in with : RecordSlice(i).some /\ call.result = RecordSlice(i)
              /\ with = {} => call.result = None
              /\ sorted => \A i \in with : call.result = RecordSlice(i)

\* C16 witness: table_data for a tag whose record ends past a buffer cut
\* short, in a face that from_slice accepted, is none.
C16_Witness ==
    /\ call.op = "table_data"
    /\ ~font.whole
    /\ \E i \in 0..(RecordCount - 1) :
          /\ RecordTag(i) = call.tag
          /\ RecordIsNear(i)
          /\ RecordOffset(i) < Len(font.data)
          /\ RecordOffset(i) + RecordLength(i) > Len(font.data)
    /\ call.result = None

----------------------------------------------------------------------------
(* Claims about narrowing conversions, checked under SpecAat *)

\* C17 as stated: Lookup::value on a format-10 table with 4-byte values
\* returns the value read from the buffer when it fits u16, and none when
\* it does not: never a truncated value.
C17_NarrowingIsChecked ==
    (/\ query.op = "value"
     /\ aat.lookup.v.format = "Format10"
     /\ aat.lookup.v.value_size = 4
     /\ query.glyph >= aat.lookup.v.first_glyph
     /\ query.glyph < aat.lookup.v.first_glyph + aat.lookup.v.glyph_count
     /\ Len(subtable.data) >= 8 + 4 * aat.lookup.v.glyph_count) =>
        LET wide == BigEndian(subtable.data,
                              8 + 4 * (query.glyph - aat.lookup.v.first_glyph), 4)
        IN  query.result = IF wide < U16Modulus THEN Some(wide) ELSE None

----------------------------------------------------------------------------
(* Claims about the metrics, checked under SpecQueries *)

\* C18 as stated: height() never panics and returns ascender() - descender()
\* exactly, for every pair of values the face can hold.
C18_HeightIsExact ==
    call.op = "height" =>
        /\ ~call.result.panic
        /\ call.result.v = Ascender(face_tables) - Descender(face_tables)

\* A metric adjusted by the MVAR delta of a tag
Adjusted(tag, value) == ApplyMetricsVariation(face_tables, tag, value)

\* The four-step fallback: the typographic value when OS/2 asks for it, else
\* the hhea value unless zero, else (OS/2 bound) the typographic value unless
\* zero, else the Windows value; `windows` is the set of adjusted Windows
\* values the last step may give
FourSteps(hhea_value, typographic, tag, windows) ==
    LET os_2 == face_tables.os_2
    IN  IF os_2.some /\ os_2.v.use_typographic_metrics THEN {Adjusted(tag, typographic)}
        ELSE IF hhea_value # 0 THEN {hhea_value}
        ELSE IF ~os_2.some THEN {hhea_value}
        ELSE IF typographic # 0 THEN {Adjusted(tag, typographic)}
        ELSE windows

WindowsAscender == {Adjusted(T_hcla, face_tables.os_2.v.windows_ascender)}
WindowsDescender == {Adjusted(T_hcld, face_tables.os_2.v.windows_descender)}

\* ascender() and descender() follow the four steps
AscenderDescenderFallback ==
    /\ call.op = "ascender" =>
          call.result \in FourSteps(face_tables.hhea.ascender,
                                    face_tables.os_2.v.typographic_ascender, T_hasc,
                                    WindowsAscender)
    /\ call.op = "descender" =>
          call.result \in FourSteps(face_tables.hhea.descender,
                                    face_tables.os_2.v.typographic_descender, T_hdsc,
                                    WindowsDescender)

\* C19 as stated: ascender(), descender() and line_gap() all follow the four
\* steps, the last being an OS/2 Windows metric adjusted by hcla or hcld.
C19_SameFallbackOrder ==
    /\ AscenderDescenderFallback
    /\ call.op = "line_gap" =>
          call.result \in FourSteps(face_tables.hhea.line_gap,
                                    face_tables.os_2.v.typographic_line_gap, T_hlgp,
                                    WindowsAscender \cup WindowsDescender)

\* C19: ascender() and descender() follow the four steps; line_gap() has
\* three: the OS/2 typographic line gap adjusted by hlgp when OS/2 asks for
\* typographic metrics, else the hhea line gap unless zero, else (OS/2 bound)
\* the OS/2 typographic line gap adjusted by hlgp, zero or not.  Without
\* OS/2 each of the three returns the hhea value, zero included.
C19_MetricFallback ==
    /\ AscenderDescenderFallback
    /\ call.op = "line_gap" =>
          call.result \in FourSteps(face_tables.hhea.line_gap,
                                    face_tables.os_2.v.typographic_line_gap, T_hlgp,
                                    {Adjusted(T_hlgp, 0)})
    /\ (call.op \in {"ascender", "descender", "line_gap"} /\ ~face_tables.os_2.some) =>
          call.result = face_tables.hhea[call.op]

\* C19 witness: hhea and OS/2 both give a line gap of zero, the face varies
\* hlgp, and line_gap() is the variation alone.
C19_Witness ==
    /\ call.op = "line_gap"
    /\ face_tables.hhea.line_gap = 0
    /\ face_tables.os_2.some
    /\ ~face_tables.os_2.v.use_typographic_metrics
    /\ face_tables.os_2.v.typographic_line_gap = 0
    /\ face_tables.os_2.v.windows_ascender # 0
    /\ call.result = 20

----------------------------------------------------------------------------
(* Claims about BinarySearchTable::get, checked under SpecSearch *)

RECURSIVE FloorLog2(_)
FloorLog2(n) == IF n <= 1 THEN 0 ELSE 1 + FloorLog2(n \div 2)

\* The entries of the searched table that contain the key
Containing(tbl, key) ==
    {i \in 0..(tbl.len - 1) :
        Contains(tbl.kind, ValueParse(tbl.kind, ArrayGet(tbl.values, i).v), key) = "Equal"}

\* C20: in every state of a call of get, at most floor(log2(len)) + 1
\* entries have been probed (so the loop ends); every probe is at an index
\* inside [min, max] and 0..len-1 whose conversion to u16 is exact and whose
\* array read succeeds; each pass leaves an interval strictly inside the one
\* it found; a value returned contains the key, and when no entry contains
\* the key the call returns none; until the call has returned a further
\* pass can be taken.
C20_SearchTerminates ==
    query.op = "get" =>
        LET tbl == aat.lookup.v.bsearch
            p == query.probes
            Width(q) == q.max - q.min
        IN  /\ Len(p) <= FloorLog2(tbl.len) + 1
            /\ \A k \in 1..Len(p) :
                  /\ p[k].min <= p[k].mid /\ p[k].mid <= p[k].max
                  /\ p[k].mid >= 0 /\ p[k].mid <= tbl.len - 1
                  /\ p[k].index = p[k].mid
                  /\ p[k].read
            /\ \A k \in 2..Len(p) :
                  /\ p[k].min >= p[k - 1].min /\ p[k].max <= p[k - 1].max
                  /\ Width(p[k]) < Width(p[k - 1])
            /\ (p # <<>> /\ ~query.result.some) =>
                  /\ query.min >= p[Len(p)].min /\ query.max <= p[Len(p)].max
                  /\ Width(query) < Width(p[Len(p)])
            /\ query.done =>
                  /\ query.result = BinarySearchTableGet(tbl, query.key)
                  /\ query.result.some =>
                        Contains(tbl.kind, query.result.v, query.key) = "Equal"
                  /\ ~query.result.some => query.min > query.max
                  /\ Containing(tbl, query.key) = {} => query.result = None
            /\ ~query.done => ENABLED GetIterate

\* C20 witness: a miss on a table of eight entries out of order, after
\* four probes.
C20_Witness ==
    /\ query.op = "get"
    /\ query.done
    /\ query.result = None
    /\ aat.lookup.v.bsearch.len = 8
    /\ Len(query.probes) = 4
    /\ \E k \in 1..7 :
          ValueParse("single", ArrayGet(aat.lookup.v.bsearch.values, k - 1).v).glyph
            > ValueParse("single", ArrayGet(aat.lookup.v.bsearch.values, k).v).glyph
    /\ aat.lookup.v.bsearch.kind = "single"

\* offset + length of record i is 2^32 or more
RecordOverflows(i) ==
    LET at == DirectoryStart + 16 * i
        lo == BigEndian(font.data, at + 10, 2) + BigEndian(font.data, at + 14, 2)
    IN  BigEndian(font.data, at + 8, 2) + BigEndian(font.data, at + 12, 2)
            + lo \div 65536 >= 65536

\* The item the provider is to yield for record i
ExpectedItem(i) ==
    IF font.usize_bits = 32 /\ RecordOverflows(i)
    THEN [ok |-> FALSE, e |-> "MalformedFont"]
    ELSE [ok |-> TRUE, tag |-> RecordTag(i), data |-> RecordSlice(i)]

\* C21: once from_slice has read the directory, the provider's items are one
\* per record, in directory order: Ok((tag, Some(B[offset..offset+length])))
\* when the range lies inside the buffer, Ok((tag, None)) when it does not,
\* Err(MalformedFont) when offset + length overflows usize (which a 32-bit
\* usize can and a 64-bit one cannot); and with an Err item from_slice
\* returns Err(MalformedFont).
C21_ProviderItems ==
    (face.some /\ Directory(font.data, font.index).some) =>
        LET items == DefaultProviderItems(font.data, Directory(font.data, font.index).v)
        IN  /\ Len(items) = RecordCount
            /\ \A i \in 0..(RecordCount - 1) : items[i + 1] = ExpectedItem(i)
            /\ call.op = "provider_next" => call.result = ExpectedItem(call.record)
            /\ (\E i \in 0..(RecordCount - 1) : ~ExpectedItem(i).ok) => Failed("MalformedFont")

\* C21 witness: on a 32-bit target the record behind head, hhea and maxp has
\* a range whose end overflows; its item is the error and from_slice fails.
C21_Witness ==
    /\ face.some
    /\ font.usize_bits = 32
    /\ font.plan.kind = "far" /\ font.whole /\ ~font.plan.first
    /\ font.plan.tables = GoodTables
    /\ call.op = "provider_next"
    /\ call.record = 3
    /\ RecordOverflows(3)
    /\ call.result = [ok |-> FALSE, e |-> "MalformedFont"]
    /\ Failed("MalformedFont")

----------------------------------------------------------------------------
(* Claims about the order of the provider's items, checked under SpecTables *)

\* The provider has been consumed to its end and from_table_provider has returned
PassFinished == outcome.some /\ provider.pos > Len(provider.items)

\* Every item of the stream is a table, and no two carry the same tag
DistinctTables(items) ==
    /\ \A k \in 1..Len(items) : items[k].ok
    /\ \A j \in 1..Len(items), k \in 1..Len(items) : items[j].tag = items[k].tag => j = k

\* A stream with its items in the order p
Permuted(items, p) == [k \in 1..Len(items) |-> items[p[k]]]

\* C28: when the provider yields tables with pairwise distinct tags, every
\* permutation of the stream gives what the stream gave: the same error, or
\* the same face with the same tables bound.
C28_OrderIndependent ==
    (PassFinished /\ DistinctTables(provider.items)) =>
        \A p \in Permutations(1..Len(provider.items)) :
            FromTableProvider(Permuted(provider.items, p)) = outcome.v

\* C28 witness: glyf and loca yielded, glyf first, before head, hhea and
\* maxp, and the face has glyf bound.
C28_Witness ==
    /\ PassFinished
    /\ DistinctTables(provider.items)
    /\ Len(provider.items) = 5
    /\ provider.items[1].tag = TagFromBytes(B_glyf)
    /\ provider.items[2].tag = TagFromBytes(B_loca)
    /\ outcome.v.ok
    /\ HasTable(outcome.v.v, "GlyphData")

\* The stream without the items that a later item of the same tag follows
RECURSIVE LastOnlyFrom(_, _)
LastOnlyFrom(items, k) ==
    IF k > Len(items) THEN <<>>
    ELSE (IF \E j \in (k + 1)..Len(items) : items[j].tag = items[k].tag
          THEN <<>> ELSE <<items[k]>>)
            \o LastOnlyFrom(items, k + 1)

\* A slice is a valid head (units_per_em not 0), hhea or maxp
ValidAs(tagBytes, data) ==
    CASE tagBytes = B_head ->
            AndThen(data, HeadParse).some /\ AndThen(data, HeadParse).v.units_per_em # 0
      [] tagBytes = B_hhea -> AndThen(data, HheaParse).some
      [] tagBytes = B_maxp -> AndThen(data, MaxpParse).some

\* The stream yields a valid table of this tag and, later and last of the
\* tag, an item that is absent or not valid
Overridden(tagBytes) ==
    LET at == {k \in 1..Len(provider.items) :
                  TagToBytes(provider.items[k].tag) = tagBytes}
    IN  \E j \in at, k \in at :
            /\ j < k
            /\ \A i \in at : i <= k
            /\ ValidAs(tagBytes, provider.items[j].data)
            /\ ~ValidAs(tagBytes, provider.items[k].data)

\* C29: when a tag is yielded more than once the last item of the tag alone
\* decides: the result is that of the stream with the earlier items of each
\* tag left out. So a valid head followed by an absent or invalid head gives
\* NoHeadTable, and so do hhea and maxp give NoHheaTable and NoMaxpTable
\* (the tables checked before them being valid).
C29_LastItemDecides ==
    (PassFinished /\ OnlyOkItems) =>
        /\ outcome.v = FromTableProvider(LastOnlyFrom(provider.items, 1))
        /\ Overridden(B_head) => outcome.v = Err("NoHeadTable")
        /\ (Overridden(B_hhea) /\ HeadValid) => outcome.v = Err("NoHheaTable")
        /\ (Overridden(B_maxp) /\ HeadValid /\ HheaValid) => outcome.v = Err("NoMaxpTable")

\* C29 witness: head, hhea and a valid maxp, then a maxp that is absent or
\* does not parse: NoMaxpTable.
C29_Witness ==
    /\ PassFinished
    /\ OnlyOkItems
    /\ Len(provider.items) = 4
    /\ Overridden(B_maxp)
    /\ HeadValid /\ HheaValid
    /\ outcome.v = Err("NoMaxpTable")

----------------------------------------------------------------------------
(* Claims about table_data against the provider's walk, checked under SpecFace *)

\* The records of the directory that carry a tag, and a directory whose
\* records are in strictly ascending tag order
Carrying(tag) == {i \in 0..(RecordCount - 1) : RecordTag(i) = tag}
TagOrdered == \A i \in 1..(RecordCount - 1) : RecordTag(i - 1) < RecordTag(i)

\* C27 as stated: on a face from_slice built, for every tag that occurs in
\* the directory, table_data(tag) is the slice the provider yielded for that
\* tag, whether the records are sorted by tag or not.
C27_TableDataFindsEveryRecord ==
    (call.op = "table_data" /\ Carrying(call.tag) # {}) =>
        \E i \in Carrying(call.tag) : call.result = ExpectedItem(i).data

\* C27 as amended: on a face from_slice built from a directory whose records
\* are in strictly ascending tag order, table_data(tag) is, for every tag
\* that occurs in the directory, the slice the provider yielded for that
\* tag, and so head, hhea and maxp, which the face has parsed, are
\* retrievable; in a directory in another order table_data may return none
\* for a tag that occurs in it.
C27_SortedDirectory ==
    (call.op = "table_data" /\ TagOrdered) =>
        /\ \A i \in Carrying(call.tag) : call.result = ExpectedItem(i).data
        /\ call.tag \in {TagFromBytes(B_head), TagFromBytes(B_hhea), TagFromBytes(B_maxp)}
              => call.result.some

\* C27 witness: a sorted directory of five records, and table_data for the
\* tag of the last one returns its slice.
C27_Witness ==
    /\ call.op = "table_data"
    /\ TagOrdered
    /\ RecordCount = 5
    /\ RecordTag(4) = call.tag
    /\ call.result.some
    /\ call.result = RecordSlice(4)

----------------------------------------------------------------------------
(* Claims about the precedence of construction errors, checked under        *)
(* SpecConstruction                                                         *)

\* The error of the container or the directory the buffer has, read off its
\* bytes in the order from_slice meets them; "none" when it has none
ContainerFault ==
    IF ~FirstMagicRecognised THEN "UnknownMagic"
    ELSE IF IsCollection /\ Len(font.data) < 12 THEN "MalformedFont"
    ELSE IF IsCollection /\ Len(font.data) < OffsetsEnd THEN "MalformedFont"
    ELSE IF IsCollection /\ font.index >= DeclaredFaces THEN "FaceIndexOutOfBounds"
    ELSE IF IsCollection /\ SelectedOffset < OffsetsEnd THEN "MalformedFont"
    ELSE IF IsCollection /\ SelectedOffset > Len(font.data) THEN "MalformedFont"
    ELSE IF IsCollection /\ ~(\E m \in RecognisedMagics \ {<<116, 116, 99, 102>>} :
                                StartsWith(font.data, SelectedOffset, m)) THEN "UnknownMagic"
    ELSE IF CountAt + 2 > Len(font.data) THEN "MalformedFont"
    ELSE IF CountAt + 8 + 16 * BigEndian(font.data, CountAt, 2) > Len(font.data)
         THEN "MalformedFont"
    ELSE "none"

\* The places of the provider's Err items
ErrItems == {k \in 1..Len(provider.items) : ~provider.items[k].ok}

\* C30: once from_slice has returned, an error of the container (UnknownMagic,
\* MalformedFont, FaceIndexOutOfBounds; in a collection a truncated offset
\* array before the face index) is the result and no item of the provider
\* was asked for; else the first Err item of the provider is the result,
\* whatever the mandatory tables are, and no item after it was consumed;
\* else NoHeadTable comes before NoHheaTable and NoHheaTable before
\* NoMaxpTable.
C30_ErrorPrecedence ==
    face.some =>
        /\ ContainerFault # "none" =>
              /\ Failed(ContainerFault)
              /\ provider = [items |-> <<>>, pos |-> 1]
              /\ ~outcome.some
        /\ (ContainerFault = "none" /\ ErrItems # {}) =>
              LET first == CHOOSE k \in ErrItems : \A j \in ErrItems : k <= j
              IN  /\ Failed(provider.items[first].e)
                  /\ provider.pos = first + 1
        /\ (ContainerFault = "none" /\ ErrItems = {}) =>
              /\ ~HeadValid => Failed("NoHeadTable")
              /\ (HeadValid /\ ~HheaValid) => Failed("NoHheaTable")
              /\ (HeadValid /\ HheaValid /\ ~MaxpValid) => Failed("NoMaxpTable")
              /\ (HeadValid /\ HheaValid /\ MaxpValid) => Result.ok

\* C30 witness: a directory whose first record overflows on a 32-bit target,
\* followed by head and hhea, maxp missing: the Err item is returned, and
\* the two items behind it were never consumed.
C30_Witness ==
    /\ face.some
    /\ ContainerFault = "none"
    /\ Len(provider.items) = 3
    /\ ErrItems = {1}
    /\ ~MaxpValid
    /\ provider.pos = 2
    /\ Failed("MalformedFont")

\* C30 second witness: a collection cut inside its offset array, asked for a
\* face index beyond the declared count: MalformedFont.
C30_TruncatedArray ==
    /\ face.some
    /\ IsCollection
    /\ Len(font.data) >= 12
    /\ Len(font.data) < OffsetsEnd
    /\ font.index >= DeclaredFaces
    /\ Failed("MalformedFont")

\* C30 third witness: head and hhea both invalid and maxp missing: NoHeadTable.
C30_AllMissing ==
    /\ face.some
    /\ ContainerFault = "none"
    /\ ErrItems = {}
    /\ ~HeadValid /\ ~HheaValid /\ ~MaxpValid
    /\ Failed("NoHeadTable")

----------------------------------------------------------------------------
(* Claims about the coordinates set_variation leaves, checked under SpecQueries *)

\* avar does remap the coordinates of this face: a table is bound and it has
\* one segment map per coordinate
AvarRemaps(f) ==
    f.avar.some /\ Len(f.avar.v.segment_maps) = f.coordinates.len

\* The coordinate the claim gives the i-th axis (i from 1): the remap, once,
\* of the normalised last value set for the axis, and of 0 when it was never
\* set; a tag sets the first axis that carries it
CoordinateOfLastValue(f, i) ==
    LET axes == VariationAxes(f)
        a == axes[i]
        first == FindAxis(axes, a.tag, 0).v.idx + 1
        c == IF first = i /\ call.last[a.tag].some
             THEN NormalizedValue(a, call.last[a.tag].v)
             ELSE 0
    IN  IF AvarRemaps(f) THEN AvarMapValue(f.avar.v.segment_maps[i], c) ELSE c

\* C26 as stated: after any sequence of successful set_variation calls the
\* stored coordinate of each axis is the avar remap, applied once, of the
\* normalised last value set for that axis (0 for an axis never set), also
\* when an avar table is bound.
C26_LastValueDecides ==
    IsVariable(face_tables) =>
        \A i \in 1..face_tables.coordinates.len :
            face_tables.coordinates.data[i] = CoordinateOfLastValue(face_tables, i)

----------------------------------------------------------------------------
(* Claims about the index arithmetic of entry, checked under SpecAat *)

\* C22 as stated: entry(state, class) never overflows; it returns the record
\* at byte entry_idx * (4 + size(payload)) of the entry table, entry_idx
\* being the u16 at byte 2 * (state * number_of_classes + class') of the
\* state array taken as a whole number, and none when a read falls outside.
C22_EntryIndexExact ==
    query.op = "entry" =>
        /\ ~query.panic
        /\ LET t == QueriedTable
               offset == StateOffset(t, query.state, query.class)
               entry_idx == IF offset.hi = 0 THEN ReadU16At(t.state_array, offset.lo)
                            ELSE None
           IN  query.result =
                  IF ~entry_idx.some THEN None
                  ELSE EntryReadAt(t.entry_table, entry_idx.v * (4 + t.extra_size),
                                   t.extra_size)

====
